---- MODULE Spec2Model ----
(***************************************************************************)
(* Contio partner SDK: the OAuth token holder (src/src/auth/oauth.ts), the  *)
(* retrying HTTP client (src/src/client/base.ts) and its OAuth auth hook    *)
(* (src/src/client/user.ts), and the webhook verifier                       *)
(* (src/src/webhooks/verifier.ts).                                          *)
(*                                                                          *)
(* Spec is one client instance (configuration drawn at construction, over   *)
(* an OAuthClient in one of the token states its operations leave it in)    *)
(* making one logical call through get/post/put/patch/delete.  SpecOAuth is *)
(* the OAuthClient's own operations called directly, SpecOAuthClock the     *)
(* same with the clock advancing between them.  SpecWebhook is a           *)
(* WebhookVerifier given payloads and signature headers.                    *)
(* Times are milliseconds.                                                  *)
(***************************************************************************)
EXTENDS Integers, Sequences, FiniteSets, TLC

VARIABLES
    config,      \* BaseClient.config: [retries, retryDelay]
    tokens,      \* OAuthClient.tokens: NoTokens or an AuthTokens record
    now,         \* Date.now()
    pc,          \* position of the call: idle, attempting, backoff, returned, thrown
    i,           \* loop variable of retryRequest
    attempts,    \* number of times request() was invoked by retryRequest
    delays,      \* arguments of the delay() calls made so far, in order
    seen,        \* kinds of outcome the attempts of this call have ended in
    lastResp,    \* what the transport produced on the last attempt
    lastError,   \* retryRequest's lastError: the error the last attempt rejected with
    result,      \* what the call returned or threw
    oauthCall,   \* the last OAuthClient operation: what it did and how it ended
    oauthIO,     \* the token endpoint's answer to that operation and the value it returned
    lastBearer,  \* the token in the Authorization header of the last dispatched attempt
    webhook,     \* the last WebhookVerifier operation: its inputs and its result
    eventHandler,\* a WebhookEventHandler: its registrations and the dispatch in progress
    express,     \* a webhook middleware and the request it is handling
    inflight,    \* the calls made on one OAuthClient, in the order they began
    deliveries,  \* the handle calls made on one WebhookEventHandler, in the order they began
    sdk          \* the construction of a client: the caller's options and this.config

vars == <<config, tokens, now, pc, i, attempts, delays, seen,
          lastResp, lastError, result, oauthCall, oauthIO, lastBearer, webhook,
          eventHandler, express, inflight, deliveries, sdk>>

(***************************************************************************)
(* Bounds                                                                   *)
(***************************************************************************)
MaxRetries == 3
\* SpecOAuthClock: the clock advances by TickMs up to MaxClock
TickMs == 500
MaxClock == 1500
\* SpecWebhook: the length of a digest in bytes
DigestBytes == 2
\* SpecHandler: the number of on() calls
MaxRegistrations == 3
\* SpecRace: the number of calls begun after the tokens were first set
MaxCalls == 2
\* SpecDeliveries: the number of handle calls
MaxDeliveries == 2

(***************************************************************************)
(* Values                                                                   *)
(***************************************************************************)
\* JavaScript undefined, for a string-valued and for a number-valued place
Undef == "undefined"
NoNum == -1

DefaultRetries == 3
DefaultRetryDelay == 1000
FastRetryDelay == 10

Methods == {"get", "post", "put", "patch", "delete"}

\* ClientConfig after the constructor's spread ({retries: 3, retryDelay:
\* 1000, ...config}): the caller's numbers, the defaults, or the caller's
\* explicit undefined, which overrides the default
ClientConfigs ==
    [retries : 0..MaxRetries, retryDelay : {FastRetryDelay, DefaultRetryDelay}]
    \cup {[retries |-> NoNum, retryDelay |-> NoNum]}

RECURSIVE Pow2(_)
Pow2(n) == IF n = 0 THEN 1 ELSE 2 * Pow2(n - 1)

Max(a, b) == IF a >= b THEN a ELSE b

\* JavaScript truthiness of a string-or-undefined and of a number-or-undefined
TruthyStr(s) == s # Undef /\ s # ""
TruthyNum(n) == n # NoNum /\ n # 0

\* a || b on strings
OrElse(a, b) == IF TruthyStr(a) THEN a ELSE b

\* String.prototype.split on a one-character separator, a string being the
\* sequence of its characters
RECURSIVE Split(_, _)
Split(str, sep) ==
    IF \A k \in 1..Len(str) : str[k] # sep
    THEN <<str>>
    ELSE LET k == CHOOSE n \in 1..Len(str) :
                      str[n] = sep /\ \A j \in 1..(n - 1) : str[j] # sep
         IN  <<SubSeq(str, 1, k - 1)>> \o Split(SubSeq(str, k + 1, Len(str)), sep)

(***************************************************************************)
(* Error response bodies (response.data after axios decoded it)             *)
(***************************************************************************)
NoFields == [code |-> Undef, error |-> Undef, message |-> Undef, request_id |-> Undef]

\* kind "object": a decoded JSON object; "string": a body axios could not
\* decode as JSON, or an empty body (''); "null": null or undefined
BodyObject(c, e, m, r) ==
    [kind |-> "object", code |-> c, error |-> e, message |-> m, request_id |-> r]
BodyString == [kind |-> "string"] @@ NoFields
BodyNull == [kind |-> "null"] @@ NoFields

ErrorBodies ==
    { BodyObject("INVALID_PARAMS", "validation_error", "Invalid request parameters", "req-abc-123"),
      BodyObject(Undef, Undef, "Too many requests", Undef),
      BodyObject(Undef, Undef, Undef, Undef),
      BodyString,
      BodyNull }

(***************************************************************************)
(* Retry-After header values                                                *)
(***************************************************************************)
\* kind "absent": no header; "empty": ''; "seconds": the decimal integer n;
\* "date": an HTTP-date, which has a resolution of one second, naming the
\* time sec * 1000; "junk": neither an integer prefix nor a date
HdrAbsent == [kind |-> "absent", n |-> 0]
HdrEmpty == [kind |-> "empty", n |-> 0]
HdrSeconds(n) == [kind |-> "seconds", n |-> n]
HdrDate(sec) == [kind |-> "date", n |-> sec]
HdrJunk == [kind |-> "junk", n |-> 0]

\* the headers a server may send at time t: two seconds, as a count and as
\* a date, a date in the past, and the malformed ones
RetryAfterHeaders(t) ==
    { HdrAbsent, HdrEmpty, HdrSeconds(2), HdrDate((t \div 1000) + 2),
      HdrDate(0), HdrJunk }

NotANumber == [defined |-> FALSE, ms |-> 0]
Some(ms) == [defined |-> TRUE, ms |-> ms]

\* parseInt(header, 10): NaN unless the text starts with an integer
parseInt(header) ==
    IF header.kind = "seconds" THEN Some(header.n) ELSE NotANumber

\* Date.parse(header): NaN unless the text is a date
DateParse(header) ==
    IF header.kind = "date" THEN Some(header.n * 1000) ELSE NotANumber

\* BaseClient.parseRetryAfter: milliseconds, or undefined
parseRetryAfter(header, t) ==
    IF header.kind \in {"absent", "empty"} THEN NotANumber
    ELSE IF parseInt(header).defined THEN Some(parseInt(header).ms * 1000)
    ELSE IF DateParse(header).defined THEN Some(Max(0, DateParse(header).ms - t))
    ELSE NotANumber

(***************************************************************************)
(* OAuthClient (src/src/auth/oauth.ts)                                      *)
(***************************************************************************)
\* an optional string value (scope on the wire) or string[] (scope held)
NoScope == [defined |-> FALSE, value |-> <<>>]
Scope(v) == [defined |-> TRUE, value |-> v]

\* this.tokens: undefined, or an AuthTokens object
NoTokens ==
    [held |-> FALSE, accessToken |-> Undef, refreshToken |-> Undef,
     idToken |-> Undef, expiresAt |-> NoNum, scope |-> NoScope]
FullAuthTokens(a, r, id, e, sc) ==
    [held |-> TRUE, accessToken |-> a, refreshToken |-> r,
     idToken |-> id, expiresAt |-> e, scope |-> sc]
\* the tokens an application stores: {accessToken, refreshToken?, expiresAt?}
AuthTokens(a, r, e) == FullAuthTokens(a, r, Undef, e, NoScope)

\* the token sets a caller restores with setTokens
StoredTokens ==
    { AuthTokens("at0", Undef, NoNum),
      AuthTokens("at0", "rt0", 0),
      AuthTokens("at0", Undef, 0) }

\* the token endpoint's answers: a failure (non-2xx or transport), a 2xx
\* whose body decodes to nothing, or a 2xx with a token response
\* {access_token, refresh_token?, id_token?, expires_in?, scope?}
TokenFailure ==
    [ok |-> FALSE, body |-> "null", access_token |-> Undef, refresh_token |-> Undef,
     id_token |-> Undef, expires_in |-> NoNum, scope |-> NoScope]
TokenEmptyBody ==
    [ok |-> TRUE, body |-> "null", access_token |-> Undef, refresh_token |-> Undef,
     id_token |-> Undef, expires_in |-> NoNum, scope |-> NoScope]
OAuthTokenResponse(a, r, id, x, sc) ==
    [ok |-> TRUE, body |-> "object", access_token |-> a, refresh_token |-> r,
     id_token |-> id, expires_in |-> x, scope |-> sc]
TokenResponse(a, r, x) == OAuthTokenResponse(a, r, Undef, x, NoScope)
\* no post to the token endpoint was made
NoAnswer ==
    [ok |-> FALSE, body |-> "none", access_token |-> Undef, refresh_token |-> Undef,
     id_token |-> Undef, expires_in |-> NoNum, scope |-> NoScope]
TokenEndpointAnswers ==
    { TokenFailure,
      TokenEmptyBody,
      OAuthTokenResponse("at1", "rt1", "id1", 1, Scope(<<"r", " ", "w">>)),
      TokenResponse("at1", Undef, NoNum) }

\* OAuthClient.parseTokenResponse on a decoded body; on null or undefined
\* response.expires_in throws a TypeError instead
ParseThrows(response) == response.body = "null"
parseTokenResponse(response, t) ==
    FullAuthTokens(response.access_token,
                   response.refresh_token,
                   response.id_token,
                   IF TruthyNum(response.expires_in)
                       THEN t + response.expires_in * 1000
                       ELSE NoNum,
                   IF response.scope.defined
                       THEN Scope(Split(response.scope.value, " "))
                       ELSE NoScope)

\* OAuthClient.getAccessToken
getAccessToken(tk) == tk.accessToken

\* not yet expired at the instant of expiry
isTokenExpired_Strict(tk, t) ==
    IF tk.expiresAt = NoNum THEN FALSE ELSE t > tk.expiresAt

\* OAuthClient.isTokenExpired: an expiresAt Date is truthy whatever it holds
isTokenExpired(tk, t) ==
    IF tk.expiresAt = NoNum THEN FALSE ELSE t >= tk.expiresAt

\* the held access token taken where the refresh token is meant
RefreshTokenToUse_AccessToken(override, tk) == OrElse(override, tk.accessToken)

\* refreshAccessToken, line 186: refreshToken || this.tokens?.refreshToken
RefreshTokenToUse(override, tk) == OrElse(override, tk.refreshToken)

\* a record of one OAuthClient call: the operation, its argument, whether
\* it posted to the token endpoint, and how it ended
OAuthCall(op, arg, networkCall, outcome, message) ==
    [op |-> op, arg |-> arg, networkCall |-> networkCall, outcome |-> outcome,
     message |-> message]
NoOAuthCall == OAuthCall("none", Undef, FALSE, "none", Undef)

\* what an OAuthClient call exchanged with the token endpoint and returned
OAuthIO(answer, returned) == [answer |-> answer, returned |-> returned]
NoOAuthIO == OAuthIO(NoAnswer, NoTokens)

\* the try block of the three grants: await post(), then parseTokenResponse
GrantSucceeds(answer) == answer.ok /\ ~ParseThrows(answer)
\* the Error a grant's catch block throws: its prefix, then the message of
\* what it caught (the TypeError of the parse, or the rejection of the post)
RefreshFailed(answer) ==
    IF answer.ok THEN "Failed to refresh token: Cannot read properties of null"
                 ELSE "Failed to refresh token: Request failed"
ExchangeFailed(answer) ==
    IF answer.ok THEN "Failed to exchange code for token: Cannot read properties of null"
                 ELSE "Failed to exchange code for token: Request failed"
ClientCredentialsFailed(answer) ==
    IF answer.ok
    THEN "Failed to get client credentials token: Cannot read properties of null"
    ELSE "Failed to get client credentials token: Request failed"

\* a failed refresh forgetting the tokens held
refreshAccessToken_ClearsOnFailure(override, tk, answer, t) ==
    IF ~TruthyStr(RefreshTokenToUse(override, tk))
    THEN [tokens |-> tk, returned |-> NoTokens, answer |-> NoAnswer,
          call |-> OAuthCall("refresh", override, FALSE, "thrown",
                             "No refresh token available")]
    ELSE IF GrantSucceeds(answer)
    THEN [tokens |-> parseTokenResponse(answer, t),
          returned |-> parseTokenResponse(answer, t), answer |-> answer,
          call |-> OAuthCall("refresh", override, TRUE, "returned", Undef)]
    ELSE [tokens |-> NoTokens, returned |-> NoTokens, answer |-> answer,
          call |-> OAuthCall("refresh", override, TRUE, "thrown",
                             RefreshFailed(answer))]

\* OAuthClient.refreshAccessToken run against the endpoint answer `answer`:
\* the tokens held afterwards, the value returned and what the call did
refreshAccessToken(override, tk, answer, t) ==
    IF ~TruthyStr(RefreshTokenToUse(override, tk))
    THEN [tokens |-> tk, returned |-> NoTokens, answer |-> NoAnswer,
          call |-> OAuthCall("refresh", override, FALSE, "thrown",
                             "No refresh token available")]
    ELSE IF GrantSucceeds(answer)
    THEN [tokens |-> parseTokenResponse(answer, t),
          returned |-> parseTokenResponse(answer, t), answer |-> answer,
          call |-> OAuthCall("refresh", override, TRUE, "returned", Undef)]
    ELSE [tokens |-> tk, returned |-> NoTokens, answer |-> answer,
          call |-> OAuthCall("refresh", override, TRUE, "thrown",
                             RefreshFailed(answer))]

\* a grant that keeps the held refresh token when the response has none
exchangeCodeForToken_KeepsRefreshToken(code, tk, answer, t) ==
    IF GrantSucceeds(answer)
    THEN LET parsed == parseTokenResponse(answer, t)
             merged == [parsed EXCEPT !.refreshToken = OrElse(@, tk.refreshToken)]
         IN  [tokens |-> merged, returned |-> merged, answer |-> answer,
              call |-> OAuthCall("exchange", code, TRUE, "returned", Undef)]
    ELSE [tokens |-> tk, returned |-> NoTokens, answer |-> answer,
          call |-> OAuthCall("exchange", code, TRUE, "thrown",
                             ExchangeFailed(answer))]

\* OAuthClient.exchangeCodeForToken
exchangeCodeForToken(code, tk, answer, t) ==
    IF GrantSucceeds(answer)
    THEN [tokens |-> parseTokenResponse(answer, t),
          returned |-> parseTokenResponse(answer, t), answer |-> answer,
          call |-> OAuthCall("exchange", code, TRUE, "returned", Undef)]
    ELSE [tokens |-> tk, returned |-> NoTokens, answer |-> answer,
          call |-> OAuthCall("exchange", code, TRUE, "thrown",
                             ExchangeFailed(answer))]

\* OAuthClient.getClientCredentialsToken; scope is the request's scope
\* parameter, "" when neither the argument nor the configuration gives one
getClientCredentialsToken(scope, tk, answer, t) ==
    IF GrantSucceeds(answer)
    THEN [tokens |-> parseTokenResponse(answer, t),
          returned |-> parseTokenResponse(answer, t), answer |-> answer,
          call |-> OAuthCall("clientCredentials", scope, TRUE, "returned", Undef)]
    ELSE [tokens |-> tk, returned |-> NoTokens, answer |-> answer,
          call |-> OAuthCall("clientCredentials", scope, TRUE, "thrown",
                             ClientCredentialsFailed(answer))]

\* the operations of OAuthClient that call the server without granting
\* tokens: initiatePartnerAuth, verifyPartnerAuth, checkConsent,
\* getPartnerInfo, getAvailableScopes (lines 353-520)
IdentityOperations ==
    {"initiatePartnerAuth", "verifyPartnerAuth", "checkConsent",
     "getPartnerInfo", "getAvailableScopes"}
\* the Error thrown by the catch block of such an operation
CallFailed(op) ==
    CASE op = "revoke" -> "Failed to revoke token: Request failed"
      [] op = "introspect" -> "Failed to introspect token: Request failed"
      [] op = "getUserInfo" -> "Failed to get user info: Request failed"
      [] OTHER -> "Failed: Request failed"

\* a revocation that forgets the tokens held when one of them is revoked
revokeToken_ClearsHeld(token, tk, ok) ==
    [tokens |-> IF ok /\ token \in {tk.accessToken, tk.refreshToken} THEN NoTokens ELSE tk,
     call |-> OAuthCall("revoke", token, TRUE, IF ok THEN "returned" ELSE "thrown",
                        IF ok THEN Undef ELSE CallFailed("revoke"))]

\* OAuthClient.revokeToken(token, tokenType), lines 276-297: one post, whose
\* answer (ok or not) decides between returning and throwing
revokeToken(token, tk, ok) ==
    [tokens |-> tk,
     call |-> OAuthCall("revoke", token, TRUE, IF ok THEN "returned" ELSE "thrown",
                        IF ok THEN Undef ELSE CallFailed("revoke"))]

\* OAuthClient.introspectToken(token), lines 536-563, and the identity
\* operations, which have the same shape: a request, then return
\* response.data or throw
serverCall(op, arg, tk, ok) ==
    [tokens |-> tk,
     call |-> OAuthCall(op, arg, TRUE, IF ok THEN "returned" ELSE "thrown",
                        IF ok THEN Undef ELSE CallFailed(op))]

\* OAuthClient.getUserInfo(accessToken?), lines 582-612
getUserInfo(accessToken, tk, ok) ==
    IF ~TruthyStr(OrElse(accessToken, tk.accessToken))
    THEN [tokens |-> tk,
          call |-> OAuthCall("getUserInfo", accessToken, FALSE, "thrown",
                             "No access token available")]
    ELSE serverCall("getUserInfo", OrElse(accessToken, tk.accessToken), tk, ok)

(***************************************************************************)
(* Errors                                                                   *)
(***************************************************************************)
\* what the transport (axios dispatch) produces for one attempt
\*   "response":   an HTTP response with a status, a decoded body and headers
\*   "noresponse": the request was sent and no response came (error.request set)
\*   "setup":      the request could not be built or sent (neither set)
Response(status, data, hdr) ==
    [kind |-> "response", status |-> status, data |-> data, retryAfter |-> hdr]
NoResponse ==
    [kind |-> "noresponse", status |-> NoNum, data |-> BodyNull, retryAfter |-> HdrAbsent]
SetupFailure ==
    [kind |-> "setup", status |-> NoNum, data |-> BodyNull, retryAfter |-> HdrAbsent]
\* the attempt ended in the auth hook: nothing reached the transport
NotDispatched ==
    [kind |-> "noauth", status |-> NoNum, data |-> BodyNull, retryAfter |-> HdrAbsent]

OkStatus == 200

\* the body and the header used where only the other one varies
PlainBody == BodyObject(Undef, "rate_limited", Undef, Undef)

TransportOutcomes(t) ==
    { Response(OkStatus, BodyNull, HdrAbsent), NoResponse, SetupFailure }
    \cup { Response(s, b, HdrAbsent) : s \in {404, 500}, b \in ErrorBodies }
    \cup { Response(429, PlainBody, h) : h \in RetryAfterHeaders(t) }
    \cup { Response(500, PlainBody, HdrSeconds(2)) }

\* errors as the code sees them.  An AxiosError carries the transport
\* outcome; the others are the Error subclasses the SDK and the runtime throw.
AxiosError(out) ==
    [name |-> "AxiosError", message |-> "Request failed", out |-> out]
ThrownError(name, message, code, statusCode, response) ==
    [name |-> name, message |-> message, code |-> code,
     statusCode |-> statusCode, response |-> response]
NoError == ThrownError(Undef, Undef, Undef, NoNum, BodyNull)

\* new ContioAPIError(message, code, statusCode?, response?)
ContioAPIError(message, code, statusCode, response) ==
    ThrownError("ContioAPIError", message, code, statusCode, response)

\* obj.prop on an error object: undefined when the object has no such property
Prop(err, prop) == IF prop \in DOMAIN err THEN err[prop] ELSE Undef

\* axios.isAxiosError
isAxiosError(err) == err.name = "AxiosError"

\* error.response and error.request of what reaches the response interceptor
HasResponse(err) == isAxiosError(err) /\ err.out.kind = "response"
HasRequest(err) == isAxiosError(err) /\ err.out.kind \in {"response", "noresponse"}

\* BaseClient.handleError: the error the response interceptor rejects with
handleError(error) ==
    IF HasResponse(error)
    THEN LET errorData == error.out.data IN
         IF errorData.kind = "null"
         THEN \* errorData.error on null or undefined
              ThrownError("TypeError", "Cannot read properties of null", Undef, NoNum, BodyNull)
         ELSE ContioAPIError(
                  OrElse(errorData.error, OrElse(errorData.message, "An error occurred")),
                  OrElse(errorData.code, "unknown_error"),
                  error.out.status,
                  errorData)
    ELSE IF HasRequest(error)
    THEN ContioAPIError("No response received from server", "network_error", NoNum, BodyNull)
    ELSE ContioAPIError(OrElse(error.message, "An unknown error occurred"),
                        "request_error", NoNum, BodyNull)

(***************************************************************************)
(* WebhookVerifier (src/src/webhooks/verifier.ts)                           *)
(***************************************************************************)
\* Strings here are sequences of characters.  HMAC-SHA256 is taken as a
\* collision-free function of (secret, payload bytes) to DigestBytes bytes.
Secrets == {"whsec_1", "whsec_2"}
SecretIndex(secret) == IF secret = "whsec_1" THEN 1 ELSE 2

\* a raw request body: id stands for its bytes, json for what JSON.parse
\* makes of them ("invalid": SyntaxError), event for the decoded object
Event(type, id, ts, app) ==
    [event_type |-> type, event_id |-> id, timestamp |-> ts, partner_app_id |-> app]
NoEvent == Event(Undef, Undef, Undef, Undef)
Payload(id, json, event) == [id |-> id, json |-> json, event |-> event]
NoPayload == Payload(0, "none", NoEvent)
Payloads ==
    { Payload(1, "object", Event("meeting.created", "evt_1", "2025-01-08T12:00:00Z", "app_1")),
      \* the same body with one character of event_id changed
      Payload(2, "object", Event("meeting.created", "evt_2", "2025-01-08T12:00:00Z", "app_1")),
      \* the same body followed by more bytes
      Payload(3, "invalid", NoEvent),
      Payload(4, "object", Event("meeting.created", Undef, "2025-01-08T12:00:00Z", "app_1")),
      Payload(5, "null", NoEvent),
      \* an event type this version of the SDK does not know
      Payload(6, "object", Event("recording.ready", "evt_6", "2025-01-08T12:00:00Z", "app_1")),
      Payload(7, "object", Event("meeting.updated", "evt_7", "2025-01-08T12:00:00Z", "app_1")) }

\* WEBHOOK_EVENTS: the event types the SDK has types for
WebhookEventTypes ==
    { "workflow.assignment.created", "action_item.updated", "action_item.created",
      "action_item.completed", "agenda_item.created", "agenda_item.updated",
      "agenda_item.deleted", "calendar_event.created", "calendar_event.updated",
      "calendar_event.deleted", "user.connection.revoked", "meeting.completed",
      "meeting.created", "meeting.updated", "participant.added",
      "participant.removed" }

\* crypto.createHmac('sha256', secret).update(payload).digest(): the bytes
Hmac(secret, payload) ==
    [k \in 1..DigestBytes |->
        IF k = 1 THEN 160 + SecretIndex(secret)
        ELSE IF k = 2 THEN 176 + payload.id
        ELSE 192 + k]

LowerHex == <<"0", "1", "2", "3", "4", "5", "6", "7", "8", "9",
              "a", "b", "c", "d", "e", "f">>
UpperHex == <<"0", "1", "2", "3", "4", "5", "6", "7", "8", "9",
              "A", "B", "C", "D", "E", "F">>

\* the value of a hex digit of either case, NoNum for any other character
HexValue(c) ==
    IF \E k \in 1..16 : LowerHex[k] = c
    THEN (CHOOSE k \in 1..16 : LowerHex[k] = c) - 1
    ELSE IF \E k \in 1..16 : UpperHex[k] = c
    THEN (CHOOSE k \in 1..16 : UpperHex[k] = c) - 1
    ELSE NoNum

\* digest('hex'): two lowercase hex digits a byte
RECURSIVE ToHex(_)
ToHex(bytes) ==
    IF Len(bytes) = 0 THEN <<>>
    ELSE <<LowerHex[(bytes[1] \div 16) + 1], LowerHex[(bytes[1] % 16) + 1]>>
             \o ToHex(Tail(bytes))

\* Buffer.from(str, 'hex'): decodes pairs of hex digits and stops at the
\* first pair that is not one, or at a single last character
RECURSIVE FromHex(_)
FromHex(str) ==
    IF Len(str) < 2 THEN <<>>
    ELSE IF HexValue(str[1]) = NoNum \/ HexValue(str[2]) = NoNum THEN <<>>
    ELSE <<16 * HexValue(str[1]) + HexValue(str[2])>>
             \o FromHex(SubSeq(str, 3, Len(str)))

Sha256Tag == <<"s", "h", "a", "2", "5", "6">>

\* WebhookVerificationResult
Verified == [isValid |-> TRUE, error |-> Undef]
Rejected(error) == [isValid |-> FALSE, error |-> error]
FormatError == "Invalid signature format (expected \"sha256=<hex>\")"

\* accepting any signature of the right length
verifySignature_LengthOnly(secret, payload, signature) ==
    IF signature = <<>> THEN Rejected("Missing signature")
    ELSE LET signatureParts == Split(signature, "=") IN
         IF Len(signatureParts) # 2 \/ signatureParts[1] # Sha256Tag
         THEN Rejected(FormatError)
         ELSE IF Len(FromHex(signatureParts[2]))
                     # Len(FromHex(ToHex(Hmac(secret, payload))))
         THEN Rejected("Signature length mismatch")
         ELSE Verified

\* WebhookVerifier.verifySignature of a verifier constructed with `secret`
verifySignature(secret, payload, signature) ==
    IF signature = <<>> THEN Rejected("Missing signature")
    ELSE LET signatureParts == Split(signature, "=") IN
         IF Len(signatureParts) # 2 \/ signatureParts[1] # Sha256Tag
         THEN Rejected(FormatError)
         ELSE LET cleanSignature == signatureParts[2]
                  expectedSignature == ToHex(Hmac(secret, payload))
                  signatureBuffer == FromHex(cleanSignature)
                  expectedSignatureBuffer == FromHex(expectedSignature)
              IN  IF Len(signatureBuffer) # Len(expectedSignatureBuffer)
                  THEN Rejected("Signature length mismatch")
                  ELSE IF signatureBuffer # expectedSignatureBuffer  \* timingSafeEqual
                  THEN Rejected("Signature mismatch")
                  ELSE Verified

\* what parseWebhook returned or threw; an Error's message is its prefix
\* followed by the message it was made from
ParseResult(outcome, event, message) ==
    [outcome |-> outcome, event |-> event, message |-> message]
NoParseResult == ParseResult("none", NoEvent, <<>>)
ReturnedEvent(event) == ParseResult("returned", event, <<>>)
ThrewError(message) == ParseResult("thrown", NoEvent, message)

\* refusing an event type that is not in WEBHOOK_EVENTS
DecodeAndValidate_KnownTypesOnly(payload) ==
    IF payload.json = "invalid"
    THEN ThrewError(<<"Failed to parse webhook payload: ", "Unexpected token">>)
    ELSE IF payload.json = "null"
    THEN ThrewError(<<"Failed to parse webhook payload: ",
                      "Cannot read properties of null">>)
    ELSE IF \/ ~TruthyStr(payload.event.event_type)
            \/ ~TruthyStr(payload.event.event_id)
            \/ ~TruthyStr(payload.event.timestamp)
            \/ ~TruthyStr(payload.event.partner_app_id)
            \/ payload.event.event_type \notin WebhookEventTypes
    THEN ThrewError(<<"Failed to parse webhook payload: ",
                      "Invalid webhook payload: missing required fields">>)
    ELSE ReturnedEvent(payload.event)

\* parseWebhook's try block: JSON.parse, the check of the required fields,
\* and the catch block that wraps whatever was thrown
DecodeAndValidate(payload) ==
    IF payload.json = "invalid"
    THEN ThrewError(<<"Failed to parse webhook payload: ", "Unexpected token">>)
    ELSE IF payload.json = "null"
    THEN ThrewError(<<"Failed to parse webhook payload: ",
                      "Cannot read properties of null">>)
    ELSE IF \/ ~TruthyStr(payload.event.event_type)
            \/ ~TruthyStr(payload.event.event_id)
            \/ ~TruthyStr(payload.event.timestamp)
            \/ ~TruthyStr(payload.event.partner_app_id)
    THEN ThrewError(<<"Failed to parse webhook payload: ",
                      "Invalid webhook payload: missing required fields">>)
    ELSE ReturnedEvent(payload.event)

\* decoding whatever arrives, signed or not
parseWebhook_Unverified(secret, payload, signature) == DecodeAndValidate(payload)

\* decoding before verifying
parseWebhook_DecodesFirst(secret, payload, signature) ==
    LET verification == verifySignature(secret, payload, signature)
        decoded == DecodeAndValidate(payload)
    IN  IF decoded.outcome = "thrown" THEN decoded
        ELSE IF ~verification.isValid
        THEN ThrewError(<<"Webhook verification failed: ", verification.error>>)
        ELSE decoded

\* WebhookVerifier.parseWebhook of a verifier constructed with `secret`
parseWebhook(secret, payload, signature) ==
    LET verification == verifySignature(secret, payload, signature) IN
    IF ~verification.isValid
    THEN ThrewError(<<"Webhook verification failed: ", verification.error>>)
    ELSE DecodeAndValidate(payload)

\* the header the sender computes: 'sha256=' + hmac.digest('hex')
Tagged(digest) == Sha256Tag \o <<"=">> \o digest
SignatureHeader(secret, payload) == Tagged(ToHex(Hmac(secret, payload)))

\* String.prototype.toUpperCase on a hex string
ToUpperCase(digest) == [k \in 1..Len(digest) |-> UpperHex[HexValue(digest[k]) + 1]]

\* headers that are not the sender's, made from a digest: without the tag,
\* under another tag, followed by two characters that are not hex digits,
\* by one hex digit, by one more byte, in upper case, without its last
\* character, with a first character that is not a hex digit, followed by
\* '=', and the tag alone
MalformedHeaders(digest) ==
    { digest,
      <<"s", "h", "a", "1", "=">> \o digest,
      Tagged(digest \o <<"z", "z">>),
      Tagged(digest \o <<"0">>),
      Tagged(digest \o <<"0", "0">>),
      Tagged(ToUpperCase(digest)),
      Tagged(SubSeq(digest, 1, Len(digest) - 1)),
      Tagged(<<"z">> \o Tail(digest)),
      Tagged(digest) \o <<"=">>,
      Tagged(<<>>) }

\* the X-Contio-Signature values the verifier is given; <<>> is a missing
\* or empty header
SignatureHeaders ==
    {<<>>}
    \cup { SignatureHeader(s, p) : s \in Secrets, p \in Payloads }
    \cup UNION { MalformedHeaders(ToHex(Hmac(s, p))) : s \in Secrets, p \in Payloads }

\* a record of one WebhookVerifier call
WebhookCall(op, secret, payload, signature, verification, parsed) ==
    [op |-> op, secret |-> secret, payload |-> payload, signature |-> signature,
     verification |-> verification, parsed |-> parsed]
NoWebhook == WebhookCall("none", Undef, NoPayload, <<>>, Rejected(Undef), NoParseResult)

(***************************************************************************)
(* WebhookEventHandler (src/unnamed/part_005)                               *)
(***************************************************************************)
\* the functions an application registers, and the event types it
\* registers them for
HandlerFunctions == {"h1", "h2"}
RegisteredTypes == {"meeting.created", "meeting.updated"}

\* one entry of this.handlers, remembering the key it was stored under;
\* the catch-all handler is kept under no key
Registration(type, fn) == [type |-> type, fn |-> fn]
CatchAll(fn) == Registration("*", fn)

\* new Map(): get() of any key gives undefined, which on() reads as []
NoHandlers == [t \in RegisteredTypes |-> <<>>]

\* WebhookEventHandler.on
on(handlers, eventType, fn) ==
    [handlers EXCEPT ![eventType] = Append(@, Registration(eventType, fn))]

\* the handlers of every event type, whatever the event
HandlersFor_AllTypes(handlers, event) ==
    handlers["meeting.created"] \o handlers["meeting.updated"]

\* handle, line 147: this.handlers.get(event.event_type)
HandlersFor(handlers, event) ==
    IF event.event_type \in DOMAIN handlers THEN handlers[event.event_type] ELSE <<>>

\* the catch-all handler after the specific ones
DispatchSequence_CatchAllLast(catchAll, handlers, event) ==
    HandlersFor(handlers, event)
        \o (IF catchAll # Undef THEN <<CatchAll(catchAll)>> ELSE <<>>)

\* handle, lines 141-152: the handlers handle awaits, in order
DispatchSequence(catchAll, handlers, event) ==
    (IF catchAll # Undef THEN <<CatchAll(catchAll)>> ELSE <<>>)
        \o HandlersFor(handlers, event)

\* what a handler does when called: returns or resolves, throws, or
\* returns a promise that rejects
HandlerOutcomes == {"resolves", "throws", "rejects"}

\* a rejected promise not awaited
Aborts_OnlyThrow(outcome) == outcome = "throws"

\* await Promise.resolve(handler(event)) throws in handle
Aborts(outcome) == outcome \in {"throws", "rejects"}

\* one call of a handler by handle
Invocation(registration, event, outcome) ==
    [registration |-> registration, event |-> event, outcome |-> outcome]

\* the error handle rejects with: none, the one parseWebhook threw, or the
\* one a handler raised
HandleError(source, message) == [source |-> source, message |-> message]
NoHandleError == HandleError("none", <<>>)
RaisedBy(fn) == HandleError("handler", <<"raised by ", fn>>)

EventHandler(at, secret, catchAll, handlers, event, calls, error) ==
    [pc |-> at, secret |-> secret, catchAll |-> catchAll, handlers |-> handlers,
     event |-> event, calls |-> calls, error |-> error]
\* new WebhookEventHandler(secret)
NewEventHandler(secret) ==
    EventHandler("idle", secret, Undef, NoHandlers, NoEvent, <<>>, NoHandleError)
NoEventHandler ==
    EventHandler("none", Undef, Undef, NoHandlers, NoEvent, <<>>, NoHandleError)

\* one handle call: where it stands ("dispatching": awaiting a handler;
\* "resolved" / "rejected": over), what it was given, the event it parsed,
\* the registrations it has called, how the promises of those calls have
\* settled so far, and the error it rejected with
Delivery(at, payload, signature, event, calls, outcomes, error) ==
    [pc |-> at, payload |-> payload, signature |-> signature, event |-> event,
     calls |-> calls, outcomes |-> outcomes, error |-> error]

\* the loop of handle between two awaits, lines 142-152: the next handler of
\* the sequence is called, or handle returns
startNext(delivery, sequence) ==
    IF Len(delivery.calls) < Len(sequence)
    THEN [delivery EXCEPT !.calls = Append(@, sequence[Len(@) + 1])]
    ELSE [delivery EXCEPT !.pc = "resolved"]

\* every handler called at once, none awaited before the next
handle_FanOut(handler, payload, signature) ==
    LET parsed == parseWebhook(handler.secret, payload, signature) IN
    IF parsed.outcome = "thrown"
    THEN Delivery("rejected", payload, signature, NoEvent, <<>>, <<>>,
                  HandleError("parseWebhook", parsed.message))
    ELSE LET sequence == DispatchSequence(handler.catchAll, handler.handlers, parsed.event)
         IN  Delivery(IF sequence = <<>> THEN "resolved" ELSE "dispatching",
                      payload, signature, parsed.event, sequence, <<>>, NoHandleError)

\* the catch-all handler called before the payload is verified and parsed
handle_CatchAllBeforeParse(handler, payload, signature) ==
    LET parsed == parseWebhook(handler.secret, payload, signature)
        early == IF handler.catchAll # Undef THEN <<CatchAll(handler.catchAll)>> ELSE <<>>
    IN
    IF parsed.outcome = "thrown"
    THEN Delivery("rejected", payload, signature, NoEvent, early, <<>>,
                  HandleError("parseWebhook", parsed.message))
    ELSE startNext(Delivery("dispatching", payload, signature, parsed.event,
                            <<>>, <<>>, NoHandleError),
                   DispatchSequence(handler.catchAll, handler.handlers, parsed.event))

\* handle(payload, signature) up to its first await, lines 135-144: it
\* rejects with what parseWebhook threw, or calls the first handler of the
\* sequence, or returns when there is none
handle(handler, payload, signature) ==
    LET parsed == parseWebhook(handler.secret, payload, signature) IN
    IF parsed.outcome = "thrown"
    THEN Delivery("rejected", payload, signature, NoEvent, <<>>, <<>>,
                  HandleError("parseWebhook", parsed.message))
    ELSE startNext(Delivery("dispatching", payload, signature, parsed.event,
                            <<>>, <<>>, NoHandleError),
                   DispatchSequence(handler.catchAll, handler.handlers, parsed.event))

\* the promise handle awaits settles, lines 143 and 150: handle rejects
\* with the handler's error or goes on
settle(handler, delivery, outcome) ==
    LET settled == [delivery EXCEPT !.outcomes = Append(@, outcome)] IN
    IF Aborts(outcome)
    THEN [settled EXCEPT
             !.pc = "rejected",
             !.error = RaisedBy(delivery.calls[Len(delivery.outcomes) + 1].fn)]
    ELSE startNext(settled,
                   DispatchSequence(handler.catchAll, handler.handlers, delivery.event))

\* a delivery whose event_id was delivered before is passed over
deliver_SkipsSeenEventId(handler, all, payload, signature) ==
    LET delivery == handle(handler, payload, signature) IN
    IF \E d \in DOMAIN all :
           all[d].pc # "rejected" /\ all[d].event.event_id = delivery.event.event_id
    THEN Append(all, [delivery EXCEPT !.pc = IF @ = "rejected" THEN @ ELSE "resolved",
                                      !.calls = <<>>])
    ELSE Append(all, delivery)

\* the handle calls of one WebhookEventHandler after one more began: a
\* handle call reads the registrations and nothing of the other calls
deliver(handler, all, payload, signature) ==
    Append(all, handle(handler, payload, signature))

\* a handler's failure ends every dispatch in progress
settleIn_AbortsAll(handler, all, d, outcome) ==
    IF Aborts(outcome)
    THEN [k \in DOMAIN all |->
            IF k = d THEN settle(handler, all[d], outcome)
            ELSE IF all[k].pc = "dispatching"
            THEN [all[k] EXCEPT !.pc = "rejected",
                                !.error = RaisedBy(all[d].calls[Len(all[d].outcomes) + 1].fn)]
            ELSE all[k]]
    ELSE [all EXCEPT ![d] = settle(handler, all[d], outcome)]

\* the handle calls after the promise awaited by call d settled: the
\* continuation belongs to call d alone
settleIn(handler, all, d, outcome) ==
    [all EXCEPT ![d] = settle(handler, all[d], outcome)]

(***************************************************************************)
(* createWebhookMiddleware (src/src/webhooks/express.ts)                    *)
(***************************************************************************)
\* WebhookMiddlewareOptions: secret ("" when not given), whether onError is
\* given, and skipVerification as passed ("undefined" when not given)
MiddlewareOptions(secret, onError, skipVerification) ==
    [secret |-> secret, onError |-> onError, skipVerification |-> skipVerification]
NoOptions == MiddlewareOptions(Undef, FALSE, Undef)

\* req.body, with the text the middleware takes as the payload: the bytes
\* of a Buffer, a string itself, JSON.stringify of an object or of null;
\* a number or undefined gives none
Body(kind, payload) == [kind |-> kind, payload |-> payload]
Bodies ==
    { Body(kind, payload) : kind \in {"buffer", "string"}, payload \in Payloads }
    \cup { Body("object", payload) : payload \in {p \in Payloads : p.json = "object"} }
    \cup { Body("null", payload) : payload \in {p \in Payloads : p.json = "null"} }
    \cup { Body("number", NoPayload), Body("undefined", NoPayload) }

\* the request: its body and its x-contio-signature header (<<>> when absent)
Request(body, signature) == [body |-> body, signature |-> signature]
NoRequest == Request(Body("undefined", NoPayload), <<>>)

\* skipping verification unless it is asked for
SkipVerification_DefaultTrue(options) == options.skipVerification # "false"

\* line 91: skipVerification = false unless given
SkipVerification(options) == options.skipVerification = "true"

\* line 94: the condition under which createWebhookMiddleware throws
SecretMissing(options) == ~TruthyStr(options.secret) /\ ~SkipVerification(options)

\* the try block of the middleware, lines 101-145: the event it attaches
\* before calling next(), or the message of the Error thrown
TryBlock(options, request) ==
    IF request.body.kind \in {"number", "undefined"}
    THEN ThrewError(<<"Unable to get request body for webhook verification">>)
    ELSE IF SkipVerification(options)
    THEN IF request.body.payload.json = "invalid"
         THEN ThrewError(<<"Unexpected token">>)
         ELSE ReturnedEvent(request.body.payload.event)
    ELSE IF request.signature = <<>>
    THEN ThrewError(<<"Missing ", "x-contio-signature", " header">>)
    ELSE parseWebhook(options.secret, request.body.payload, request.signature)

\* res.status(...).json({error, message}), or nothing written
JsonResponse(status, error, message) ==
    [written |-> TRUE, status |-> status, error |-> error, message |-> message]
NoJsonResponse == [written |-> FALSE, status |-> NoNum, error |-> Undef, message |-> <<>>]

\* what the middleware did with a request: calls of next(), what it attached
\* to req, calls of options.onError with the Error's message, the response
Handled(nextCalls, event, verification, onErrorCalls, response) ==
    [nextCalls |-> nextCalls, webhookEvent |-> event,
     webhookVerification |-> verification, onErrorCalls |-> onErrorCalls,
     response |-> response]
NotAttached == [attached |-> FALSE, event |-> NoEvent]
Attached(event) == [attached |-> TRUE, event |-> event]
NoVerification == [attached |-> FALSE, isValid |-> FALSE, error |-> <<>>]
VerificationOk == [attached |-> TRUE, isValid |-> TRUE, error |-> <<>>]
VerificationFailed(message) == [attached |-> TRUE, isValid |-> FALSE, error |-> message]
NotHandled == Handled(0, NotAttached, NoVerification, <<>>, NoJsonResponse)

\* a failure passed over: the chain continues
CatchClause_Ignores(options, message) ==
    Handled(1, NotAttached, NoVerification, <<>>, NoJsonResponse)

\* the catch block, lines 146-164
CatchClause(options, message) ==
    IF options.onError
    THEN Handled(0, NotAttached, VerificationFailed(message), <<message>>, NoJsonResponse)
    ELSE Handled(0, NotAttached, VerificationFailed(message), <<>>,
                 JsonResponse(401, "Webhook verification failed", message))

\* the request handler createWebhookMiddleware returns, lines 100-165
middleware(options, request) ==
    LET tried == TryBlock(options, request) IN
    IF tried.outcome = "thrown"
    THEN CatchClause(options, tried.message)
    ELSE Handled(1, Attached(tried.event), VerificationOk, <<>>, NoJsonResponse)

Express(at, options, request, handled) ==
    [pc |-> at, options |-> options, request |-> request, handled |-> handled]
NoExpress == Express("none", NoOptions, NoRequest, NotHandled)
(***************************************************************************)
(* OAuthClient calls in flight (src/src/auth/oauth.ts)                      *)
(***************************************************************************)
\* the tokens of the n-th response the token endpoint issues
AccessTokenAt(n) == <<"at1", "at2", "at3", "at4", "at5", "at6">>[n]
RefreshTokenAt(n) == <<"rt1", "rt2", "rt3", "rt4", "rt5", "rt6">>[n]
IdTokenAt(n) == <<"id1", "id2", "id3", "id4", "id5", "id6">>[n]
\* the n-th answer of the token endpoint: a failure, a full token response
\* or one with an access token only
TokenEndpointAnswersAt(n) ==
    { TokenFailure,
      OAuthTokenResponse(AccessTokenAt(n), RefreshTokenAt(n), IdTokenAt(n), 1,
                         Scope(<<"r", " ", "w">>)),
      TokenResponse(AccessTokenAt(n), Undef, NoNum) }

\* one call on the OAuthClient: the operation, whether the auth hook of a
\* request made it, the refresh token it sent, whether it posted, where it
\* stands ("posted": awaiting the post; "answered": the response is on its
\* way; "returned" / "thrown": over), the endpoint's answer and its place in
\* the order of the answers issued, the call's place in the order in which
\* the calls assigned this.tokens or gave up, the argument of setTokens, and
\* the access token the hook read for the Authorization header
ClientCall(op, via, sent, networkCall, at, answer, issued, completed, set, bearer) ==
    [op |-> op, via |-> via, sent |-> sent, networkCall |-> networkCall,
     pc |-> at, answer |-> answer, issued |-> issued, completed |-> completed,
     set |-> set, bearer |-> bearer]
NoInflight == <<>>

Issued(calls) == Cardinality({k \in DOMAIN calls : calls[k].issued > 0})
Completed(calls) == Cardinality({k \in DOMAIN calls : calls[k].completed > 0})

\* setTokens(tk), lines 326-328
setTokens(calls, tk) ==
    ClientCall("setTokens", "direct", Undef, FALSE, "returned", NoAnswer, 0,
               Completed(calls) + 1, tk, Undef)

\* a grant up to its await: lines 139-156, 186-208, 234-250
posted(op, via, sent) ==
    ClientCall(op, via, sent, TRUE, "posted", NoAnswer, 0, 0, NoTokens, Undef)

\* refreshAccessToken(override) up to its await, lines 186-208: the refresh
\* token is chosen and checked before the post
beginRefresh(via, override, tk) ==
    IF TruthyStr(RefreshTokenToUse(override, tk))
    THEN posted("refresh", via, RefreshTokenToUse(override, tk))
    ELSE ClientCall("refresh", via, Undef, FALSE, "thrown", NoAnswer, 0, 0,
                    NoTokens, Undef)

\* the hook after its refresh, user.ts lines 88-96: the access token held now
ReadBearer(call, tk) ==
    IF call.via = "hook"
    THEN [call EXCEPT !.bearer = getAccessToken(tk),
                      !.pc = IF TruthyStr(getAccessToken(tk))
                             THEN "returned" ELSE "thrown"]
    ELSE call

\* addAuthHeaders up to its first await, user.ts lines 77-81
beginAddAuthHeaders(tk, t) ==
    IF isTokenExpired(tk, t)
    THEN LET call == beginRefresh("hook", Undef, tk) IN
         IF call.networkCall THEN call ELSE ReadBearer(call, tk)
    ELSE ReadBearer(ClientCall("none", "hook", Undef, FALSE, "returned",
                               NoAnswer, 0, 0, NoTokens, Undef), tk)

\* a response kept only when no later-issued response was stored before
resume_NewestIssuedWins(calls, k, tk, t) ==
    IF /\ GrantSucceeds(calls[k].answer)
       /\ \A j \in DOMAIN calls :
              (calls[j].completed > 0 /\ GrantSucceeds(calls[j].answer))
                  => calls[j].issued < calls[k].issued
    THEN parseTokenResponse(calls[k].answer, t)
    ELSE tk

\* a response stored over the tokens held, field by field
resume_Merges(calls, k, tk, t) ==
    IF GrantSucceeds(calls[k].answer)
    THEN LET parsed == parseTokenResponse(calls[k].answer, t) IN
         [parsed EXCEPT !.refreshToken = OrElse(@, tk.refreshToken),
                        !.idToken = OrElse(@, tk.idToken)]
    ELSE tk

\* call k resumes after its await: this.tokens after lines 158, 210, 252
\* (this.tokens = this.parseTokenResponse(response.data)), or untouched
\* when the post or the parse threw
resume(calls, k, tk, t) ==
    IF GrantSucceeds(calls[k].answer)
    THEN parseTokenResponse(calls[k].answer, t)
    ELSE tk

(***************************************************************************)
(* PartnerUserClient.addAuthHeaders (src/src/client/user.ts)                *)
(***************************************************************************)
\* the request interceptor, run against the token endpoint answer `answer`:
\* the tokens held afterwards, the OAuth call it made (if any), and either
\* the bearer token attached or the Error thrown
NoAccessTokenError ==
    [name |-> "Error",
     message |-> "No access token available. Please authenticate first."]

\* the hook without its try/catch: a failed refresh rejects the request
addAuthHeaders_RefreshFailurePropagates(tk, prevCall, prevIO, answer, t) ==
    LET expired == isTokenExpired(tk, t)
        refresh == refreshAccessToken(Undef, tk, answer, t)
        held == IF expired THEN refresh.tokens ELSE tk
        token == getAccessToken(held)
        rejected == expired /\ refresh.call.outcome = "thrown"
    IN  [tokens |-> held,
         call |-> IF expired THEN refresh.call ELSE prevCall,
         io |-> IF expired THEN OAuthIO(refresh.answer, refresh.returned) ELSE prevIO,
         ok |-> TruthyStr(token) /\ ~rejected,
         bearer |-> IF TruthyStr(token) /\ ~rejected THEN token ELSE Undef,
         error |-> IF rejected
                   THEN [name |-> "Error", message |-> refresh.call.message]
                   ELSE NoAccessTokenError]

\* the hook refreshing at most once: after a refresh it checks no more
addAuthHeaders_RefreshesOnce(tk, prevCall, prevIO, answer, t) ==
    LET expired == isTokenExpired(tk, t) /\ prevCall.op # "refresh"
        refresh == refreshAccessToken(Undef, tk, answer, t)
        held == IF expired THEN refresh.tokens ELSE tk
        token == getAccessToken(held)
    IN  [tokens |-> held,
         call |-> IF expired THEN refresh.call ELSE prevCall,
         io |-> IF expired THEN OAuthIO(refresh.answer, refresh.returned) ELSE prevIO,
         ok |-> TruthyStr(token),
         bearer |-> IF TruthyStr(token) THEN token ELSE Undef,
         error |-> NoAccessTokenError]

\* the hook without its check of the token: the request goes out anyway
addAuthHeaders_SendsWithoutToken(tk, prevCall, prevIO, answer, t) ==
    LET expired == isTokenExpired(tk, t)
        refresh == refreshAccessToken(Undef, tk, answer, t)
        held == IF expired THEN refresh.tokens ELSE tk
    IN  [tokens |-> held,
         call |-> IF expired THEN refresh.call ELSE prevCall,
         io |-> IF expired THEN OAuthIO(refresh.answer, refresh.returned) ELSE prevIO,
         ok |-> TRUE,
         bearer |-> getAccessToken(held),
         error |-> NoAccessTokenError]

addAuthHeaders(tk, prevCall, prevIO, answer, t) ==
    LET expired == isTokenExpired(tk, t)
        refresh == refreshAccessToken(Undef, tk, answer, t)  \* failure swallowed
        held == IF expired THEN refresh.tokens ELSE tk
        token == getAccessToken(held)
    IN  [tokens |-> held,
         call |-> IF expired THEN refresh.call ELSE prevCall,
         io |-> IF expired THEN OAuthIO(refresh.answer, refresh.returned) ELSE prevIO,
         ok |-> TruthyStr(token),
         bearer |-> IF TruthyStr(token) THEN token ELSE Undef,
         error |-> NoAccessTokenError]

(***************************************************************************)
(* Construction of a client (src/src/client/base.ts, src/src/index.ts)      *)
(***************************************************************************)
DefaultTimeout == 30000

\* a property of an options object: not there, or there with a value
\* (NoNum when the value is undefined)
NotGiven == [given |-> FALSE, value |-> NoNum]
Given(v) == [given |-> TRUE, value |-> v]
ClientOptions(timeout, retries, retryDelay) ==
    [timeout |-> timeout, retries |-> retries, retryDelay |-> retryDelay]

\* {default, ...options}: a property that is there wins, undefined included
Spread(default, option) == IF option.given THEN option.value ELSE default

\* ContioPartnerSDK constructor, forUser, forAdmin (index.ts lines 55-59,
\* 70-74, 91-95, 111-115): the client is given {baseURL: config.baseURL,
\* timeout: config.timeout}, so timeout is always there
FactoryOptions(options) ==
    ClientOptions(Given(options.timeout.value), NotGiven, NotGiven)

\* BaseClient constructor, lines 62-69: this.config = {timeout: 30000,
\* retries: 3, retryDelay: 1000, ...config}; PartnerUserClient passes
\* {...config, baseURL} on (user.ts lines 63-71)
BaseClientConfig(options) ==
    [timeout |-> Spread(DefaultTimeout, options.timeout),
     retries |-> Spread(DefaultRetries, options.retries),
     retryDelay |-> Spread(DefaultRetryDelay, options.retryDelay)]

Factories == {"ContioPartnerSDK", "forUser", "forAdmin"}

\* what `via` (a client class, or a factory of ContioPartnerSDK) makes of
\* the caller's options
Construct(via, options) ==
    BaseClientConfig(IF via \in Factories THEN FactoryOptions(options) ELSE options)

Construction(at, via, options, made) ==
    [pc |-> at, via |-> via, options |-> options, config |-> made]
NoConstruction ==
    Construction("none", Undef, ClientOptions(NotGiven, NotGiven, NotGiven),
                 [timeout |-> NoNum, retries |-> NoNum, retryDelay |-> NoNum])

(***************************************************************************)
(* BaseClient.retryRequest (src/src/client/base.ts)                         *)
(***************************************************************************)
\* this.config.retries ?? 3 and this.config.retryDelay ?? 1000
RetriesOrDefault == IF config.retries = NoNum THEN DefaultRetries ELSE config.retries
RetryDelayOrDefault ==
    IF config.retryDelay = NoNum THEN DefaultRetryDelay ELSE config.retryDelay

\* the loop bound exclusive: one attempt fewer
LoopCondition_Exclusive(k) == k < RetriesOrDefault

\* line 199: the loop condition
LoopCondition(k) == k <= RetriesOrDefault

\* giving up one attempt early
IsLastAttempt_OneEarly(k) == k = config.retries - 1

\* lines 210 and 225: i === this.config.retries
IsLastAttempt(k) == k = config.retries

\* a linear backoff
ExponentialDelay_Linear(k) == RetryDelayOrDefault * (k + 1)

\* lines 214 and 230: retryDelay * Math.pow(2, i)
ExponentialDelay(k) == RetryDelayOrDefault * Pow2(k)

\* line 205: axios.isAxiosError(error) && error.response?.status
CaughtStatus(error) ==
    IF isAxiosError(error) /\ HasResponse(error) /\ TruthyNum(error.out.status)
    THEN error.out.status
    ELSE NoNum

Throw == [throw |-> TRUE, ms |-> 0]
Delay(ms) == [throw |-> FALSE, ms |-> ms]

\* lines 202-231: what the catch block does with the error of attempt k
CatchBlock(error, k, t) ==
    LET status == CaughtStatus(error) IN
    IF status # NoNum /\ status = 429
    THEN IF IsLastAttempt(k)
         THEN Throw
         ELSE LET retryAfter == parseRetryAfter(error.out.retryAfter, t) IN
              Delay(IF retryAfter.defined THEN retryAfter.ms ELSE ExponentialDelay(k))
    ELSE IF status # NoNum /\ status >= 400 /\ status < 500
    THEN Throw
    ELSE IF IsLastAttempt(k)
    THEN Throw
    ELSE Delay(ExponentialDelay(k))

\* the class of outcome an attempt ended in
OutcomeKind(out) ==
    IF out.kind # "response" THEN out.kind
    ELSE IF out.status < 400 THEN "success"
    ELSE IF out.status = 429 THEN "rate_limited"
    ELSE IF out.status < 500 THEN "client_error"
    ELSE "server_error"

\* a 5xx response that carries Retry-After reaching the catch block as a
\* rate-limit response
RequestRejection_RetryAfterMeansRateLimited(hook, out) ==
    IF hook.ok /\ out.kind = "response" /\ out.status >= 500
          /\ out.retryAfter.kind # "absent"
    THEN AxiosError([out EXCEPT !.status = 429])
    ELSE handleError(IF hook.ok THEN AxiosError(out) ELSE hook.error)

\* request(): the interceptor chain of one axios call.  The request
\* interceptor's rejection and the transport's both pass through the
\* response interceptor's rejected handler (handleError).
RequestRejection(hook, out) ==
    handleError(IF hook.ok THEN AxiosError(out) ELSE hook.error)

(***************************************************************************)
(* State machine                                                            *)
(***************************************************************************)
Pending == [kind |-> "pending", error |-> NoError]
Returned == [kind |-> "returned", error |-> NoError]
Thrown(err) == [kind |-> "thrown", error |-> err]

InitCall ==
    /\ now = 0
    /\ pc = "idle"
    /\ i = 0
    /\ attempts = 0
    /\ delays = <<>>
    /\ seen = {}
    /\ lastResp = NotDispatched
    /\ lastError = NoError
    /\ result = Pending
    /\ oauthCall = NoOAuthCall
    /\ oauthIO = NoOAuthIO
    /\ lastBearer = Undef
    /\ inflight = NoInflight
    /\ deliveries = <<>>
    /\ sdk = NoConstruction

\* no webhook has been received
InitNoWebhooks ==
    /\ webhook = NoWebhook
    /\ eventHandler = NoEventHandler
    /\ express = NoExpress

\* a client over an OAuthClient that holds nothing yet or restored tokens
Init ==
    /\ config \in ClientConfigs
    /\ tokens \in {NoTokens} \cup StoredTokens
    /\ InitCall
    /\ InitNoWebhooks

\* a freshly constructed OAuthClient
InitOAuth ==
    /\ config \in ClientConfigs
    /\ tokens = NoTokens
    /\ InitCall
    /\ InitNoWebhooks

callVars == <<pc, i, attempts, delays, seen, lastResp, lastError, result, lastBearer>>

\* OAuthClient.setTokens
SetTokens(tk) ==
    /\ tokens' = tk
    /\ oauthCall' = OAuthCall("setTokens", Undef, FALSE, "returned", Undef)
    /\ oauthIO' = NoOAuthIO
    /\ UNCHANGED <<config, now, callVars, webhook, eventHandler, express, inflight, deliveries, sdk>>

\* OAuthClient.isTokenExpired called directly
IsTokenExpired ==
    /\ oauthCall' = OAuthCall("isTokenExpired", Undef, FALSE,
                              IF isTokenExpired(tokens, now) THEN "true" ELSE "false",
                              Undef)
    /\ oauthIO' = NoOAuthIO
    /\ UNCHANGED <<config, tokens, now, callVars, webhook, eventHandler, express, inflight, deliveries, sdk>>

\* OAuthClient.exchangeCodeForToken(code) called directly
ExchangeCodeForToken(code, answer) ==
    LET r == exchangeCodeForToken(code, tokens, answer, now) IN
    /\ tokens' = r.tokens
    /\ oauthCall' = r.call
    /\ oauthIO' = OAuthIO(r.answer, r.returned)
    /\ UNCHANGED <<config, now, callVars, webhook, eventHandler, express, inflight, deliveries, sdk>>

\* OAuthClient.getClientCredentialsToken(scope?) called directly
GetClientCredentialsToken(scope, answer) ==
    LET r == getClientCredentialsToken(scope, tokens, answer, now) IN
    /\ tokens' = r.tokens
    /\ oauthCall' = r.call
    /\ oauthIO' = OAuthIO(r.answer, r.returned)
    /\ UNCHANGED <<config, now, callVars, webhook, eventHandler, express, inflight, deliveries, sdk>>

\* time passes between two operations
Tick ==
    /\ now + TickMs <= MaxClock
    /\ now' = now + TickMs
    /\ UNCHANGED <<config, tokens, callVars, oauthCall, oauthIO, webhook, eventHandler, express, inflight, deliveries, sdk>>

\* OAuthClient.refreshAccessToken(refreshToken?) called directly
RefreshAccessToken(override, answer) ==
    LET r == refreshAccessToken(override, tokens, answer, now) IN
    /\ tokens' = r.tokens
    /\ oauthCall' = r.call
    /\ oauthIO' = OAuthIO(r.answer, r.returned)
    /\ UNCHANGED <<config, now, callVars, webhook, eventHandler, express, inflight, deliveries, sdk>>

\* get / post / put / patch / delete: enter retryRequest, i = 0 and the
\* first test of the loop condition (line 234 when it fails)
StartCall(m) ==
    /\ pc = "idle"
    /\ m \in Methods
    /\ i' = 0
    /\ IF LoopCondition(0)
       THEN /\ pc' = "attempting"
            /\ UNCHANGED result
       ELSE /\ pc' = "thrown"
            /\ result' = Thrown(lastError)
    /\ UNCHANGED <<config, tokens, now, attempts, delays, seen, lastResp,
                   lastError, oauthCall, oauthIO, lastBearer, webhook, eventHandler, express, inflight, deliveries, sdk>>

\* one pass of the loop body: await request(), and on rejection the catch
\* block up to its throw or its call of delay()
Attempt(out, answer) ==
    /\ pc = "attempting"
    /\ LET hook == addAuthHeaders(tokens, oauthCall, oauthIO, answer, now)
           sent == IF hook.ok THEN out ELSE NotDispatched
           ok == hook.ok /\ out.kind = "response" /\ out.status = OkStatus
           error == RequestRejection(hook, out)
           todo == CatchBlock(error, i, now)
       IN  /\ tokens' = hook.tokens
           /\ oauthCall' = hook.call
           /\ oauthIO' = hook.io
           /\ lastBearer' = hook.bearer
           /\ attempts' = attempts + 1
           /\ lastResp' = sent
           /\ seen' = seen \cup {OutcomeKind(sent)}
           /\ IF ok
              THEN /\ pc' = "returned"
                   /\ result' = Returned
                   /\ UNCHANGED <<lastError, delays>>
              ELSE /\ lastError' = error
                   /\ IF todo.throw
                      THEN /\ pc' = "thrown"
                           /\ result' = Thrown(error)
                           /\ UNCHANGED delays
                      ELSE /\ pc' = "backoff"
                           /\ delays' = Append(delays, todo.ms)
                           /\ UNCHANGED result
    /\ UNCHANGED <<config, now, i, webhook, eventHandler, express, inflight, deliveries, sdk>>

\* the delay() promise resolves: i++, then the loop condition, then either
\* the next pass or line 234 (throw lastError)
Backoff ==
    /\ pc = "backoff"
    /\ now' = now + delays[Len(delays)]
    /\ i' = i + 1
    /\ IF LoopCondition(i + 1)
       THEN /\ pc' = "attempting"
            /\ UNCHANGED result
       ELSE /\ pc' = "thrown"
            /\ result' = Thrown(lastError)
    /\ UNCHANGED <<config, tokens, attempts, delays, seen, lastResp,
                   lastError, oauthCall, oauthIO, lastBearer, webhook, eventHandler, express, inflight, deliveries, sdk>>

clientVars ==
    <<config, tokens, now, callVars, oauthCall, oauthIO, inflight, deliveries, sdk>>

\* a process that has constructed no client yet, holding a webhook secret
\* and a delivery it received: a raw body and its X-Contio-Signature header
InitWebhook ==
    /\ config = [retries |-> NoNum, retryDelay |-> NoNum]
    /\ tokens = NoTokens
    /\ InitCall
    /\ \E secret \in Secrets, payload \in Payloads, signature \in SignatureHeaders :
           webhook = WebhookCall("received", secret, payload, signature,
                                 Rejected(Undef), NoParseResult)
    /\ eventHandler = NoEventHandler
    /\ express = NoExpress

\* new WebhookVerifier(secret).verifySignature(payload, signature)
VerifySignature ==
    /\ webhook.op = "received"
    /\ webhook' = WebhookCall("verifySignature", webhook.secret, webhook.payload,
                              webhook.signature,
                              verifySignature(webhook.secret, webhook.payload,
                                              webhook.signature),
                              NoParseResult)
    /\ UNCHANGED <<clientVars, eventHandler, express>>

\* new WebhookVerifier(secret).parseWebhook(payload, signature)
ParseWebhook ==
    /\ webhook.op = "received"
    /\ webhook' = WebhookCall("parseWebhook", webhook.secret, webhook.payload,
                              webhook.signature,
                              verifySignature(webhook.secret, webhook.payload,
                                              webhook.signature),
                              parseWebhook(webhook.secret, webhook.payload,
                                           webhook.signature))
    /\ UNCHANGED <<clientVars, eventHandler, express>>

\* an application that has constructed a WebhookEventHandler
InitHandler ==
    /\ config = [retries |-> NoNum, retryDelay |-> NoNum]
    /\ tokens = NoTokens
    /\ InitCall
    /\ webhook = NoWebhook
    /\ eventHandler = NewEventHandler("whsec_1")
    /\ express = NoExpress

RECURSIVE SumOfLengths(_, _)
SumOfLengths(handlers, types) ==
    IF types = {} THEN 0
    ELSE LET t == CHOOSE x \in types : TRUE
         IN  Len(handlers[t]) + SumOfLengths(handlers, types \ {t})

\* handler.on(eventType, fn), before any delivery
On(eventType, fn) ==
    /\ eventHandler.pc = "idle"
    /\ SumOfLengths(eventHandler.handlers, RegisteredTypes) < MaxRegistrations
    /\ eventHandler' =
           [eventHandler EXCEPT !.handlers = on(@, eventType, fn)]
    /\ UNCHANGED <<clientVars, webhook, express>>

\* handler.onAny(fn), before any delivery
OnAny(fn) ==
    /\ eventHandler.pc = "idle"
    /\ eventHandler' = [eventHandler EXCEPT !.catchAll = fn]
    /\ UNCHANGED <<clientVars, webhook, express>>

\* handler.handle(payload, signature) up to its first await
Handle(payload, signature) ==
    /\ eventHandler.pc = "idle"
    /\ LET parsed == parseWebhook(eventHandler.secret, payload, signature)
           sequence == DispatchSequence(eventHandler.catchAll,
                                        eventHandler.handlers, parsed.event)
       IN  eventHandler' =
               IF parsed.outcome = "thrown"
               THEN [eventHandler EXCEPT
                        !.pc = "rejected",
                        !.error = HandleError("parseWebhook", parsed.message)]
               ELSE [eventHandler EXCEPT
                        !.pc = IF Len(sequence) = 0 THEN "resolved" ELSE "dispatching",
                        !.event = parsed.event]
    /\ UNCHANGED <<clientVars, webhook, express>>

\* handle calls the next handler and awaits what it returns
Invoke(outcome) ==
    /\ eventHandler.pc = "dispatching"
    /\ LET sequence == DispatchSequence(eventHandler.catchAll,
                                        eventHandler.handlers, eventHandler.event)
           k == Len(eventHandler.calls) + 1
           called == Append(eventHandler.calls,
                            Invocation(sequence[k], eventHandler.event, outcome))
       IN  eventHandler' =
               IF Aborts(outcome)
               THEN [eventHandler EXCEPT !.pc = "rejected", !.calls = called,
                                         !.error = RaisedBy(sequence[k].fn)]
               ELSE [eventHandler EXCEPT
                        !.pc = IF k = Len(sequence) THEN "resolved" ELSE "dispatching",
                        !.calls = called]
    /\ UNCHANGED <<clientVars, webhook, express>>

NextHandler ==
    \/ \E eventType \in RegisteredTypes, fn \in HandlerFunctions : On(eventType, fn)
    \/ \E fn \in HandlerFunctions : OnAny(fn)
    \/ \E payload \in Payloads :
           \E signature \in {SignatureHeader("whsec_1", payload), <<>>} :
               Handle(payload, signature)
    \/ \E outcome \in HandlerOutcomes : Invoke(outcome)

SpecHandler == InitHandler /\ [][NextHandler]_vars

\* an application that has constructed a WebhookEventHandler and made its
\* registrations, before the deliveries arrive
InitDeliveries ==
    /\ config = [retries |-> NoNum, retryDelay |-> NoNum]
    /\ tokens = NoTokens
    /\ InitCall
    /\ webhook = NoWebhook
    /\ express = NoExpress
    /\ \E catchAll \in {Undef, "h2"},
          created \in {<<>>, <<"h1">>, <<"h1", "h2">>} :
           eventHandler =
               [NewEventHandler("whsec_1") EXCEPT
                   !.catchAll = catchAll,
                   !.handlers =
                       [t \in RegisteredTypes |->
                           IF t = "meeting.created"
                           THEN [k \in DOMAIN created |-> Registration(t, created[k])]
                           ELSE <<Registration(t, "h1")>>]]

\* the deliveries that arrive: a 'meeting.created' event, a 'meeting.updated'
\* event and a body that is no JSON, signed or without a signature
DeliveredPayloads == {p \in Payloads : p.id \in {1, 3, 7}}

\* handler.handle(payload, signature) is called and runs to its first await
HandleDelivery(payload, signature) ==
    /\ Len(deliveries) < MaxDeliveries
    /\ deliveries' = deliver(eventHandler, deliveries, payload, signature)
    /\ UNCHANGED <<config, tokens, now, callVars, oauthCall, oauthIO, inflight,
                   webhook, eventHandler, express, sdk>>

\* the promise that handle call d awaits settles, and the call runs to its
\* next await or to its end
Settle(d, outcome) ==
    /\ deliveries[d].pc = "dispatching"
    /\ deliveries' = settleIn(eventHandler, deliveries, d, outcome)
    /\ UNCHANGED <<config, tokens, now, callVars, oauthCall, oauthIO, inflight,
                   webhook, eventHandler, express, sdk>>

NextDeliveries ==
    \/ \E payload \in DeliveredPayloads :
           \E signature \in {SignatureHeader("whsec_1", payload), <<>>} :
               HandleDelivery(payload, signature)
    \/ \E d \in DOMAIN deliveries, outcome \in HandlerOutcomes : Settle(d, outcome)

SpecDeliveries == InitDeliveries /\ [][NextDeliveries]_vars

\* an application about to construct a client, directly or through
\* ContioPartnerSDK, with the options it has chosen
InitConstruct ==
    /\ config = [retries |-> NoNum, retryDelay |-> NoNum]
    /\ tokens = NoTokens
    /\ now = 0 /\ pc = "idle" /\ i = 0 /\ attempts = 0 /\ delays = <<>> /\ seen = {}
    /\ lastResp = NotDispatched /\ lastError = NoError /\ result = Pending
    /\ oauthCall = NoOAuthCall /\ oauthIO = NoOAuthIO /\ lastBearer = Undef
    /\ inflight = NoInflight /\ deliveries = <<>>
    /\ InitNoWebhooks
    /\ \E timeout \in {NotGiven, Given(NoNum), Given(5000)} :
          \/ \E via \in {"PartnerUserClient", "PartnerAdminClient"},
                retries \in {NotGiven} \cup {Given(n) : n \in {NoNum} \cup 0..MaxRetries},
                retryDelay \in {NotGiven, Given(FastRetryDelay)} :
                 sdk = Construction("start", via,
                                    ClientOptions(timeout, retries, retryDelay),
                                    NoConstruction.config)
          \/ \E via \in Factories :
                 sdk = Construction("start", via,
                                    ClientOptions(timeout, NotGiven, NotGiven),
                                    NoConstruction.config)

\* the constructor runs
ConstructClient ==
    /\ sdk.pc = "start"
    /\ sdk' = [sdk EXCEPT !.pc = "constructed",
                          !.config = Construct(sdk.via, sdk.options)]
    /\ UNCHANGED <<config, tokens, now, callVars, oauthCall, oauthIO, inflight,
                   deliveries, webhook, eventHandler, express>>

SpecConstruct == InitConstruct /\ [][ConstructClient]_vars

\* an application about to create the middleware with some options, and the
\* request that will reach it
InitExpress ==
    /\ config = [retries |-> NoNum, retryDelay |-> NoNum]
    /\ tokens = NoTokens
    /\ InitCall
    /\ webhook = NoWebhook
    /\ eventHandler = NoEventHandler
    /\ \E secret \in {"", "whsec_1"}, onError \in BOOLEAN,
          skipVerification \in {Undef, "false", "true"}, body \in Bodies :
           \E signature \in {<<>>}
                  \cup { SignatureHeader(s, body.payload) : s \in Secrets }
                  \cup { SignatureHeader("whsec_1", p) :
                             p \in {q \in Payloads : q.id = 1} }
                  \cup { Tagged(ToHex(Hmac("whsec_1", body.payload)) \o <<"z", "z">>) } :
               express = Express("start",
                                 MiddlewareOptions(secret, onError, skipVerification),
                                 Request(body, signature), NotHandled)

\* createWebhookMiddleware(options)
CreateWebhookMiddleware ==
    /\ express.pc = "start"
    /\ express' = [express EXCEPT
                      !.pc = IF SecretMissing(express.options)
                             THEN "not created" ELSE "created"]
    /\ UNCHANGED <<clientVars, webhook, eventHandler>>

\* the middleware is called with the request
Middleware ==
    /\ express.pc = "created"
    /\ express' = [express EXCEPT
                      !.pc = "done",
                      !.handled = middleware(express.options, express.request)]
    /\ UNCHANGED <<clientVars, webhook, eventHandler>>

NextExpress ==
    \/ CreateWebhookMiddleware
    \/ Middleware

SpecExpress == InitExpress /\ [][NextExpress]_vars

\* an application that has restored tokens with setTokens and now makes
\* calls without awaiting one before beginning the next
InitRace ==
    /\ config = [retries |-> NoNum, retryDelay |-> NoNum]
    /\ InitCall
    /\ InitNoWebhooks
    /\ tokens \in StoredTokens

raceUnchanged ==
    <<config, now, callVars, oauthCall, oauthIO, webhook, eventHandler, express,
      deliveries, sdk>>
CanBegin == Len(inflight) < MaxCalls + 1

\* the first setTokens, and any later one
SetTokensNow(tk) ==
    /\ CanBegin
    /\ inflight = <<>> => tk = tokens
    /\ tokens' = tk
    /\ inflight' = Append(inflight, setTokens(inflight, tk))
    /\ UNCHANGED raceUnchanged

\* refreshAccessToken(override) is called and runs to its await
BeginRefreshAccessToken(override) ==
    /\ inflight # <<>>
    /\ CanBegin
    /\ inflight' = Append(inflight, beginRefresh("direct", override, tokens))
    /\ UNCHANGED <<tokens, raceUnchanged>>

\* a request reaches the auth hook, which runs to its await or to its end
BeginAddAuthHeaders ==
    /\ inflight # <<>>
    /\ CanBegin
    /\ inflight' = Append(inflight, beginAddAuthHeaders(tokens, now))
    /\ UNCHANGED <<tokens, raceUnchanged>>

\* exchangeCodeForToken / getClientCredentialsToken run to their await
BeginGrant(op) ==
    /\ inflight # <<>>
    /\ CanBegin
    /\ inflight' = Append(inflight, posted(op, "direct", Undef))
    /\ UNCHANGED <<tokens, raceUnchanged>>

\* the token endpoint answers the post of call k
Answer(k, answer) ==
    /\ inflight[k].pc = "posted"
    /\ answer \in TokenEndpointAnswersAt(Issued(inflight) + 1)
    /\ inflight' = [inflight EXCEPT ![k].pc = "answered",
                                    ![k].answer = answer,
                                    ![k].issued = Issued(inflight) + 1]
    /\ UNCHANGED <<tokens, raceUnchanged>>

\* the answer reaches call k, which resumes after its await and runs to its
\* end; the hook then reads the access token
Resume(k) ==
    /\ inflight[k].pc = "answered"
    /\ tokens' = resume(inflight, k, tokens, now)
    /\ inflight' = [inflight EXCEPT
           ![k] = ReadBearer([inflight[k] EXCEPT
                                 !.pc = IF GrantSucceeds(inflight[k].answer)
                                        THEN "returned" ELSE "thrown",
                                 !.completed = Completed(inflight) + 1],
                             tokens')]
    /\ UNCHANGED raceUnchanged

NextRace ==
    \/ \E tk \in StoredTokens : SetTokensNow(tk)
    \/ \E override \in {Undef, "rt0"} : BeginRefreshAccessToken(override)
    \/ BeginAddAuthHeaders
    \/ \E op \in {"exchange", "clientCredentials"} : BeginGrant(op)
    \/ \E k \in DOMAIN inflight, answer \in TokenEndpointAnswersAt(Issued(inflight) + 1) :
           Answer(k, answer)
    \/ \E k \in DOMAIN inflight : Resume(k)

SpecRace == InitRace /\ [][NextRace]_vars

NextWebhook ==
    \/ VerifySignature
    \/ ParseWebhook

SpecWebhook == InitWebhook /\ [][NextWebhook]_vars

NextOAuth ==
    \/ \E tk \in StoredTokens : SetTokens(tk)
    \/ \E override \in {Undef, "rt0"}, answer \in TokenEndpointAnswers :
           RefreshAccessToken(override, answer)
    \/ \E answer \in TokenEndpointAnswers : ExchangeCodeForToken("code0", answer)
    \/ \E scope \in {"", "admin:read"}, answer \in TokenEndpointAnswers :
           GetClientCredentialsToken(scope, answer)
    \/ IsTokenExpired

SpecOAuth == InitOAuth /\ [][NextOAuth]_vars

\* the same operations with time passing between them
NextOAuthClock ==
    \/ NextOAuth
    \/ Tick

SpecOAuthClock == InitOAuth /\ [][NextOAuthClock]_vars

\* token responses that differ in expires_in only: absent, 0, 1 or 2 seconds
ExpiringTokenResponses ==
    { TokenResponse("at1", "rt1", x) : x \in {NoNum, 0, 1, 2} }

\* grants answered with such responses, with time passing between them
NextExpiry ==
    \/ \E answer \in ExpiringTokenResponses : ExchangeCodeForToken("code0", answer)
    \/ \E answer \in ExpiringTokenResponses : RefreshAccessToken("rt0", answer)
    \/ IsTokenExpired
    \/ Tick

SpecExpiry == InitOAuth /\ [][NextExpiry]_vars

\* OAuthClient.revokeToken called directly, with a token held or another
RevokeToken(token, ok) ==
    LET r == revokeToken(token, tokens, ok) IN
    /\ tokens' = r.tokens
    /\ oauthCall' = r.call
    /\ oauthIO' = NoOAuthIO
    /\ UNCHANGED <<config, now, callVars, webhook, eventHandler, express, inflight, deliveries, sdk>>

\* OAuthClient.introspectToken or one of the identity operations
ServerCall(op, arg, ok) ==
    LET r == serverCall(op, arg, tokens, ok) IN
    /\ tokens' = r.tokens
    /\ oauthCall' = r.call
    /\ oauthIO' = NoOAuthIO
    /\ UNCHANGED <<config, now, callVars, webhook, eventHandler, express, inflight, deliveries, sdk>>

\* OAuthClient.getUserInfo called directly
GetUserInfo(accessToken, ok) ==
    LET r == getUserInfo(accessToken, tokens, ok) IN
    /\ tokens' = r.tokens
    /\ oauthCall' = r.call
    /\ oauthIO' = NoOAuthIO
    /\ UNCHANGED <<config, now, callVars, webhook, eventHandler, express, inflight, deliveries, sdk>>

\* the tokens a caller may name: those held, those of a response, another
NamedTokens == {"at0", "rt0", "at1", "rt1", "other"}

\* every operation of OAuthClient, in any order
NextOAuthAll ==
    \/ NextOAuth
    \/ \E token \in NamedTokens, ok \in BOOLEAN : RevokeToken(token, ok)
    \/ \E token \in NamedTokens, ok \in BOOLEAN : ServerCall("introspect", token, ok)
    \/ \E op \in IdentityOperations, ok \in BOOLEAN : ServerCall(op, Undef, ok)
    \/ \E accessToken \in {Undef, "other"}, ok \in BOOLEAN : GetUserInfo(accessToken, ok)

SpecOAuthAll == InitOAuth /\ [][NextOAuthAll]_vars

\* the hook posts to the token endpoint only when the held token is expired
HookAnswers ==
    IF isTokenExpired(tokens, now) THEN TokenEndpointAnswers ELSE {NoAnswer}

Next ==
    \/ \E m \in Methods : StartCall(m)
    \/ \E out \in TransportOutcomes(now), answer \in HookAnswers :
           Attempt(out, answer)
    \/ Backoff

Spec == Init /\ [][Next]_vars

\* one executor call in which every awaited promise settles: a request ends
\* with a response or without one (the axios timeout), and the timer of
\* delay() fires
SpecSettling ==
    /\ Init
    /\ [][Next]_vars
    /\ WF_vars(\E out \in TransportOutcomes(now), answer \in HookAnswers :
                   Attempt(out, answer))
    /\ WF_vars(Backoff)

(***************************************************************************)
(* Properties of the request executor                                       *)
(***************************************************************************)
\* the outcome classes the specification calls retryable
Retryable == {"rate_limited", "server_error", "noresponse"}

\* the last attempt got an HTTP error response
FailedWithResponse ==
    lastResp.kind = "response" /\ lastResp.status >= 400

\* C1: a response with a status in [400,500) other than 429 ends the call
\* at once: the call has thrown, no delay follows it, and when it is the
\* only outcome of the call there was exactly one attempt.
C1_ClientErrorNeverRetried ==
    OutcomeKind(lastResp) = "client_error" =>
        /\ pc = "thrown"
        /\ seen = {"client_error"} => (attempts = 1 /\ delays = <<>>)

\* C2: while every failed attempt of a call ended in a retryable outcome
\* (429, status >= 500, no response), no error is thrown before attempt
\* maxAttempts + 1 has failed, and a 2xx on attempt k + 1 is returned after
\* exactly k delays.
C2_TransientFailuresRetried ==
    seen \subseteq (Retryable \cup {"success"}) =>
        /\ pc = "thrown" => attempts = RetriesOrDefault + 1
        /\ pc = "returned" =>
               /\ result = Returned
               /\ Len(delays) = attempts - 1
               /\ attempts <= RetriesOrDefault + 1

C2_Witness ==
    /\ pc = "returned"
    /\ config.retries = 2
    /\ seen = {"rate_limited", "success"}
    /\ attempts = 3
    /\ Len(delays) = 2

\* C3: when every attempt ends in status 500 or 429 the call throws after
\* exactly maxAttempts + 1 attempts, and what it throws is the error of the
\* last attempt.
C3_ExhaustedAfterMaxAttempts ==
    seen \subseteq {"rate_limited", "server_error"} =>
        /\ attempts <= RetriesOrDefault + 1
        /\ pc = "thrown" =>
               /\ attempts = RetriesOrDefault + 1
               /\ result = Thrown(handleError(AxiosError(lastResp)))

C3_Witness ==
    /\ pc = "thrown"
    /\ config.retries = 3
    /\ seen = {"server_error"}
    /\ attempts = 4
    /\ result.error.statusCode = 500

\* C4: after a 429 that is retried, the delay is the Retry-After value when
\* the header parses (n seconds give n * 1000 ms, a date d gives
\* max(0, d - now) ms) and baseDelayMs * 2^attempt only otherwise.
C4_RetryAfterHonoured ==
    (pc = "backoff" /\ OutcomeKind(lastResp) = "rate_limited") =>
        LET retryAfter == parseRetryAfter(lastResp.retryAfter, now) IN
        delays[Len(delays)] =
            IF retryAfter.defined THEN retryAfter.ms
            ELSE RetryDelayOrDefault * Pow2(i)

\* C5: after a status >= 500 or no response, the delay before retry number
\* k (from 0) is baseDelayMs * 2^k; with retries 3 and retryDelay 1000 the
\* delays of an exhausted call are 1000, 2000, 4000.
C5_ExponentialBackoff ==
    /\ (pc = "backoff" /\ OutcomeKind(lastResp) \in {"server_error", "noresponse"}) =>
           delays[Len(delays)] = RetryDelayOrDefault * Pow2(Len(delays) - 1)
    /\ seen \subseteq {"server_error", "noresponse"} =>
           /\ \A k \in 1..Len(delays) : delays[k] = RetryDelayOrDefault * Pow2(k - 1)
           /\ (pc = "thrown" /\ config.retries = DefaultRetries
                  /\ config.retryDelay = DefaultRetryDelay) =>
                  delays = <<1000, 2000, 4000>>

C5_Witness ==
    /\ pc = "thrown"
    /\ config = [retries |-> DefaultRetries, retryDelay |-> DefaultRetryDelay]
    /\ seen = {"server_error", "noresponse"}
    /\ delays = <<1000, 2000, 4000>>

\* C6: an error with neither a response nor a request (code request_error)
\* ends the call at once, after exactly one attempt when it is the only
\* outcome of the call.
C6_RequestErrorNeverRetried ==
    lastResp.kind = "setup" =>
        /\ lastError.code = "request_error"
        /\ pc = "thrown"
        /\ seen = {"setup"} => attempts = 1

\* C7: the error thrown for an HTTP error response has statusCode = the
\* status, response = the decoded body, message = body.error, else
\* body.message, else 'An error occurred', and code = body.code, else
\* 'unknown_error'; the defaults apply when there is no usable body.
C7_StructuredErrorFields ==
    (pc = "thrown" /\ FailedWithResponse) =>
        LET body == lastResp.data
            err == result.error
        IN  /\ err.statusCode = lastResp.status
            /\ err.response = body
            /\ err.message = IF body.error # Undef THEN body.error
                              ELSE IF body.message # Undef THEN body.message
                              ELSE "An error occurred"
            /\ err.code = IF body.code # Undef THEN body.code ELSE "unknown_error"

\* C8: whatever made the call fail, what it throws is a ContioAPIError.
C8_AlwaysContioAPIError ==
    pc = "thrown" => result.error.name = "ContioAPIError"

\* C9: when the body of the failed response has request_id, the thrown
\* error exposes it as error.requestId and as error.response.request_id.
C9_RequestIdSurfaced ==
    (pc = "thrown" /\ FailedWithResponse /\ lastResp.data.request_id # Undef) =>
        /\ Prop(result.error, "requestId") = lastResp.data.request_id
        /\ result.error.response.request_id = lastResp.data.request_id

(***************************************************************************)
(* Properties of the OAuthClient                                            *)
(***************************************************************************)
\* C10: refreshAccessToken() without an argument, while no tokens or tokens
\* without a refresh token are held, throws 'No refresh token available',
\* posts nothing to the token endpoint and leaves the held tokens as they were.
C10_RefreshWithoutTokenFails ==
    [][ (oauthCall'.op = "refresh" /\ oauthCall'.arg = Undef
            /\ ~TruthyStr(tokens.refreshToken)) =>
        (/\ oauthCall'.outcome = "thrown"
         /\ oauthCall'.message = "No refresh token available"
         /\ ~oauthCall'.networkCall
         /\ tokens' = tokens) ]_vars

C10_Witness ==
    /\ oauthCall.op = "refresh"
    /\ oauthCall.arg = Undef
    /\ oauthCall.message = "No refresh token available"
    /\ tokens.held
    /\ tokens.refreshToken = Undef

\* the three grants: operations that post to the token endpoint
Grants == {"exchange", "refresh", "clientCredentials"}

\* C11: a grant (exchangeCodeForToken, refreshAccessToken,
\* getClientCredentialsToken) that fails leaves the held tokens exactly as
\* they were: getAccessToken() returns the same access token and the same
\* refresh token is still held.
C11_FailedGrantKeepsTokens ==
    [][ (oauthCall'.op \in Grants /\ oauthCall'.outcome = "thrown") =>
        (/\ tokens' = tokens
         /\ tokens'.accessToken = tokens.accessToken
         /\ tokens'.refreshToken = tokens.refreshToken
         /\ oauthIO'.returned = NoTokens) ]_vars

\* a refresh that the token endpoint refused, the tokens still held
C11_Witness ==
    /\ oauthCall.op = "refresh"
    /\ oauthCall.outcome = "thrown"
    /\ oauthCall.networkCall
    /\ oauthIO.answer = TokenFailure
    /\ tokens.accessToken = "at0"
    /\ tokens.refreshToken = "rt0"

\* Array.prototype.join
RECURSIVE Join(_, _)
Join(words, sep) ==
    IF Len(words) = 0 THEN <<>>
    ELSE IF Len(words) = 1 THEN words[1]
    ELSE words[1] \o <<sep>> \o Join(Tail(words), sep)

\* C12: after exchangeCodeForToken or refreshAccessToken returns, the held
\* tokens are the value returned, and every field of them comes from the
\* token response: nothing of the tokens held before survives, so a response
\* without refresh_token leaves no refresh token held.
C12_GrantReplacesTokens ==
    [][ (oauthCall'.op \in {"exchange", "refresh"}
            /\ oauthCall'.outcome = "returned") =>
        LET response == oauthIO'.answer IN
        /\ tokens' = oauthIO'.returned
        /\ tokens'.held
        /\ tokens'.accessToken = response.access_token
        /\ tokens'.refreshToken = response.refresh_token
        /\ tokens'.idToken = response.id_token
        /\ tokens'.expiresAt =
               IF response.expires_in \in {NoNum, 0} THEN NoNum
               ELSE now + 1000 * response.expires_in
        /\ tokens'.scope.defined = response.scope.defined
        /\ response.scope.defined =>
               /\ Join(tokens'.scope.value, " ") = response.scope.value
               /\ \A k \in 1..Len(tokens'.scope.value) :
                      \A j \in 1..Len(tokens'.scope.value[k]) :
                          tokens'.scope.value[k][j] # " " ]_vars

\* a refresh with the held refresh token answered without refresh_token:
\* no refresh token is held afterwards
C12_Witness ==
    /\ oauthCall.op = "refresh"
    /\ oauthCall.arg = Undef
    /\ oauthCall.outcome = "returned"
    /\ oauthIO.answer.refresh_token = Undef
    /\ tokens.accessToken = "at1"
    /\ tokens.refreshToken = Undef

\* C13: the tokens getClientCredentialsToken returns, and the tokens held
\* after it, never have a refresh token.
C13_ClientCredentialsNoRefreshToken ==
    (oauthCall.op = "clientCredentials" /\ oauthCall.outcome = "returned") =>
        /\ oauthIO.returned.refreshToken = Undef
        /\ tokens.refreshToken = Undef

C15_RefreshFailureSwallowed ==
    [][ (attempts' = attempts + 1 /\ tokens.expiresAt # NoNum
            /\ now >= tokens.expiresAt) =>
        (/\ oauthCall'.op = "refresh"
         /\ oauthCall'.arg = Undef
         /\ oauthCall'.outcome = "returned" =>
                lastBearer' = oauthIO'.returned.accessToken
         /\ oauthCall'.outcome = "thrown" =>
                /\ tokens' = tokens
                /\ TruthyStr(tokens.accessToken) =>
                       /\ lastResp'.kind # "noauth"
                       /\ lastBearer' = tokens.accessToken
                       /\ pc' = "thrown" =>
                              /\ result'.error = handleError(AxiosError(lastResp'))
                              /\ result'.error.message # oauthCall'.message) ]_vars

\* the token endpoint refused the refresh, the request went out with the
\* stale token and the caller got the server's 404
C15_Witness ==
    /\ oauthCall.op = "refresh"
    /\ oauthCall.outcome = "thrown"
    /\ oauthCall.networkCall
    /\ lastBearer = "at0"
    /\ lastResp.kind = "response"
    /\ lastResp.status = 404
    /\ pc = "thrown"
    /\ result.error.statusCode = 404

(***************************************************************************)
(* Properties of the WebhookVerifier                                        *)
(***************************************************************************)
\* C16: given the header 'sha256=' + hex(HMAC-SHA256(s2, p2)), a verifier
\* holding secret s finds payload p valid exactly when s2 = s and p2 = p
\* (so a header made over a longer or a modified payload, or with another
\* secret, is invalid).
C16_ValidIffSameSecretAndPayload ==
    \A s2 \in Secrets, p2 \in Payloads :
        (webhook.op = "verifySignature"
            /\ webhook.signature = SignatureHeader(s2, p2)) =>
        (webhook.verification.isValid <=>
            (s2 = webhook.secret /\ p2 = webhook.payload))

\* the sender's own header verified
C16_Witness ==
    /\ webhook.op = "verifySignature"
    /\ webhook.signature = SignatureHeader(webhook.secret, webhook.payload)
    /\ webhook.verification.isValid

\* the header starts with 'sha256='
HasTag(signature) ==
    /\ Len(signature) > Len(Sha256Tag)
    /\ SubSeq(signature, 1, Len(Sha256Tag) + 1) = Sha256Tag \o <<"=">>
\* a character after the tag is not a hex digit
DigestNotHex(signature) ==
    /\ HasTag(signature)
    /\ \E k \in (Len(Sha256Tag) + 2)..Len(signature) :
           HexValue(signature[k]) = NoNum

\* C17: a header that is present and lacks the 'sha256=' tag, or whose
\* digest part has a character that is not a hex digit, is rejected with the
\* format error and no other.
C17_MalformedHeaderIsFormatError ==
    (webhook.op = "verifySignature" /\ webhook.signature # <<>>
        /\ (~HasTag(webhook.signature) \/ DigestNotHex(webhook.signature))) =>
    webhook.verification = Rejected(FormatError)

\* C18: a header is found valid only when it is exactly 'sha256=' followed
\* by the lowercase hex digest of the payload under the verifier's secret.
C18_ValidOnlyExactHeader ==
    (webhook.op = "verifySignature" /\ webhook.verification.isValid) =>
        webhook.signature = SignatureHeader(webhook.secret, webhook.payload)

HasRequiredFields(payload) ==
    /\ payload.json = "object"
    /\ payload.event.event_type \notin {Undef, ""}
    /\ payload.event.event_id \notin {Undef, ""}
    /\ payload.event.timestamp \notin {Undef, ""}
    /\ payload.event.partner_app_id \notin {Undef, ""}

\* C21: for a payload whose signature verifies, parseWebhook throws a parse
\* error (not the verification error) when the payload is not JSON, throws
\* the error of the missing required fields when the payload decodes and
\* lacks one of them, and returns the decoded event when all four are there.
C21_VerifiedPayloadOutcome ==
    (webhook.op = "parseWebhook" /\ webhook.verification.isValid) =>
        /\ webhook.payload.json = "invalid" =>
               /\ webhook.parsed.outcome = "thrown"
               /\ webhook.parsed.message[1] = "Failed to parse webhook payload: "
        /\ (webhook.payload.json # "invalid" /\ ~HasRequiredFields(webhook.payload)) =>
               /\ webhook.parsed.outcome = "thrown"
               /\ webhook.parsed.message[Len(webhook.parsed.message)]
                      = "Invalid webhook payload: missing required fields"
        /\ HasRequiredFields(webhook.payload) =>
               /\ webhook.parsed.outcome = "returned"
               /\ webhook.parsed.event = webhook.payload.event

\* C22: a verified payload that has the four required fields and an event
\* type outside WEBHOOK_EVENTS is returned as decoded; parseWebhook does not
\* throw for it.
C22_UnknownEventTypeParses ==
    (webhook.op = "parseWebhook" /\ webhook.verification.isValid
        /\ HasRequiredFields(webhook.payload)
        /\ webhook.payload.event.event_type \notin WebhookEventTypes) =>
    /\ webhook.parsed.outcome = "returned"
    /\ webhook.parsed.event = webhook.payload.event

\* an event of a type the SDK has no type for, returned
C22_Witness ==
    /\ webhook.op = "parseWebhook"
    /\ webhook.parsed.outcome = "returned"
    /\ webhook.parsed.event.event_type = "recording.ready"
    /\ webhook.parsed.event.event_type \notin WebhookEventTypes

(***************************************************************************)
(* Properties of the WebhookEventHandler                                    *)
(***************************************************************************)
\* the registrations a dispatch of the parsed event has to call, in order
ExpectedCalls ==
    (IF eventHandler.catchAll # Undef
     THEN <<[type |-> "*", fn |-> eventHandler.catchAll]>> ELSE <<>>)
    \o (IF eventHandler.event.event_type \in RegisteredTypes
        THEN eventHandler.handlers[eventHandler.event.event_type] ELSE <<>>)

\* C23: for a delivery that parsed, the handlers handle has called so far
\* are the first ones of: the catch-all handler if one is registered, then
\* the registrations for the event's event_type in the order they were made;
\* each was given the parsed event; and when handle resolves every one of
\* them has been called, once.
C23_DispatchOrder ==
    eventHandler.pc \in {"dispatching", "resolved"} =>
        /\ Len(eventHandler.calls) <= Len(ExpectedCalls)
        /\ \A k \in 1..Len(eventHandler.calls) :
               /\ eventHandler.calls[k].registration = ExpectedCalls[k]
               /\ eventHandler.calls[k].event = eventHandler.event
        /\ eventHandler.pc = "resolved" =>
               Len(eventHandler.calls) = Len(ExpectedCalls)

\* a catch-all handler and two handlers of the event's type, all called
C23_Witness ==
    /\ eventHandler.pc = "resolved"
    /\ eventHandler.catchAll = "h2"
    /\ eventHandler.event.event_type = "meeting.created"
    /\ eventHandler.handlers["meeting.created"] =
           <<Registration("meeting.created", "h1"), Registration("meeting.created", "h2")>>
    /\ Len(eventHandler.calls) = 3
    /\ eventHandler.calls[1].registration.type = "*"

\* C24: handle calls no handler registered for an event type other than the
\* event's: every call is of the catch-all handler or of a registration
\* made for the event's event_type.
C24_OnlyMatchingHandlers ==
    \A k \in 1..Len(eventHandler.calls) :
        \/ /\ eventHandler.calls[k].registration.type = "*"
           /\ eventHandler.calls[k].registration.fn = eventHandler.catchAll
        \/ eventHandler.calls[k].registration.type = eventHandler.event.event_type

\* a 'meeting.created' event dispatched while a handler for
\* 'meeting.updated' is registered
C24_Witness ==
    /\ eventHandler.pc = "resolved"
    /\ eventHandler.event.event_type = "meeting.created"
    /\ Len(eventHandler.handlers["meeting.updated"]) > 0
    /\ Len(eventHandler.handlers["meeting.created"]) > 0
    /\ eventHandler.catchAll # Undef
    /\ Len(eventHandler.calls) = Len(eventHandler.handlers["meeting.created"]) + 1

\* C25: a handler that throws or whose promise rejects is the last handler
\* handle calls, and handle rejects with the error that handler raised.
C25_HandlerErrorAborts ==
    \A k \in 1..Len(eventHandler.calls) :
        eventHandler.calls[k].outcome \in {"throws", "rejects"} =>
            /\ k = Len(eventHandler.calls)
            /\ eventHandler.pc = "rejected"
            /\ eventHandler.error.source = "handler"
            /\ eventHandler.error.message =
                   <<"raised by ", eventHandler.calls[k].registration.fn>>

\* the catch-all handler's promise rejected while a specific handler waits
C25_Witness ==
    /\ eventHandler.pc = "rejected"
    /\ Len(eventHandler.calls) = 1
    /\ eventHandler.calls[1].outcome = "rejects"
    /\ eventHandler.calls[1].registration.type = "*"
    /\ eventHandler.event.event_type \in RegisteredTypes
    /\ Len(eventHandler.handlers[eventHandler.event.event_type]) > 0

(***************************************************************************)
(* Properties of the Express middleware                                     *)
(***************************************************************************)
\* C26: unless skipVerification is true, a middleware exists only for a
\* non-empty secret, and it calls next() or attaches webhookEvent only for a
\* request that has a signature header which verifySignature accepts for
\* the request's payload under that secret; skipVerification not given
\* is skipVerification false.
C26_NextOnlyWhenVerified ==
    express.options.skipVerification # "true" =>
        /\ express.pc \in {"created", "done"} => express.options.secret \notin {Undef, ""}
        /\ (express.handled.nextCalls > 0 \/ express.handled.webhookEvent.attached) =>
               /\ express.request.signature # <<>>
               /\ express.request.body.kind \notin {"number", "undefined"}
               /\ verifySignature(express.options.secret,
                                  express.request.body.payload,
                                  express.request.signature).isValid

\* a signed request passed on by a middleware created without skipVerification
C26_Witness ==
    /\ express.pc = "done"
    /\ express.options.skipVerification = Undef
    /\ express.handled.nextCalls = 1
    /\ express.handled.webhookEvent.attached
    /\ express.request.signature =
           SignatureHeader(express.options.secret, express.request.body.payload)

\* C27: once the middleware has handled a request, exactly one of two
\* things has happened.  Either next() was called once, the event is
\* attached, webhookVerification is {isValid: true} and nothing else was
\* done; or next() was not called, webhookVerification is {isValid: false,
\* error} and the rejection was delivered: to onError when it is given, with
\* no response written, otherwise as status 401 with the body {error,
\* message}.
C27_OneOutcome ==
    express.pc = "done" =>
        LET h == express.handled
            passed ==
                /\ h.nextCalls = 1
                /\ h.webhookEvent.attached
                /\ h.webhookVerification = VerificationOk
                /\ h.onErrorCalls = <<>>
                /\ ~h.response.written
            rejected ==
                /\ h.nextCalls = 0
                /\ h.webhookVerification.attached
                /\ ~h.webhookVerification.isValid
                /\ h.webhookVerification.error # <<>>
                /\ IF express.options.onError
                   THEN /\ h.onErrorCalls = <<h.webhookVerification.error>>
                        /\ ~h.response.written
                   ELSE /\ h.onErrorCalls = <<>>
                        /\ h.response = JsonResponse(401, "Webhook verification failed",
                                                     h.webhookVerification.error)
        IN  (passed \/ rejected) /\ ~(passed /\ rejected)

\* a request with a signature made under another secret, answered with 401
C27_Witness ==
    /\ express.pc = "done"
    /\ ~express.options.onError
    /\ express.options.skipVerification # "true"
    /\ express.request.signature = SignatureHeader("whsec_2", express.request.body.payload)
    /\ express.handled.response.status = 401
    /\ express.handled.response.message =
           <<"Webhook verification failed: ", "Signature mismatch">>
    /\ express.handled.nextCalls = 0

(***************************************************************************)
(* Termination of the request executor                                      *)
(***************************************************************************)
\* the bounds of C28 on one call: attempts, delays, and nothing after a 2xx
AttemptsBounded == attempts <= RetriesOrDefault + 1
DelaysBounded == Len(delays) <= RetriesOrDefault
NothingAfterSuccess ==
    "success" \in seen =>
        /\ pc = "returned"
        /\ lastResp.kind = "response"
        /\ lastResp.status = OkStatus
Terminates == (pc = "attempting") ~> (pc \in {"returned", "thrown"})

\* C28: every call ends, returned or thrown, whatever the outcomes of its
\* attempts, after at most maxAttempts + 1 attempts and at most maxAttempts
\* delays, and makes no attempt after a 2xx response.
C28_Terminates ==
    /\ [](AttemptsBounded /\ DelaysBounded /\ NothingAfterSuccess)
    /\ Terminates

(***************************************************************************)
(* Properties of concurrent OAuthClient calls                               *)
(***************************************************************************)
\* the calls that assigned this.tokens, and what each assigned
Writers ==
    {k \in DOMAIN inflight :
        /\ inflight[k].completed > 0
        /\ inflight[k].op = "setTokens" \/ GrantSucceeds(inflight[k].answer)}
Written(k) ==
    IF inflight[k].op = "setTokens"
    THEN inflight[k].set
    ELSE parseTokenResponse(inflight[k].answer, now)
LastWriter ==
    CHOOSE k \in Writers : \A j \in Writers : inflight[j].completed <= inflight[k].completed

\* C29: a refresh that has a refresh token to send posts to the token
\* endpoint whatever other calls are in flight, and the tokens held are
\* those assigned by the call that completed last, whatever the order in
\* which the endpoint issued the responses.
C29_LastWriterWins ==
    /\ \A k \in DOMAIN inflight :
           inflight[k].op = "refresh" =>
               /\ inflight[k].networkCall = TruthyStr(inflight[k].sent)
               /\ inflight[k].pc \in {"returned", "thrown"} /\ inflight[k].networkCall =>
                      inflight[k].issued > 0
    /\ Writers # {} => tokens = Written(LastWriter)

\* two refreshes, one of them begun by the hook of a request that saw the
\* token expired, both answered with tokens; the response issued first
\* arrived last and is the one held
C29_Witness ==
    \E a, b \in DOMAIN inflight :
        /\ inflight[a].op = "refresh" /\ inflight[b].op = "refresh"
        /\ inflight[a].via = "hook"
        /\ inflight[a].pc = "returned" /\ inflight[b].pc = "returned"
        /\ GrantSucceeds(inflight[a].answer) /\ GrantSucceeds(inflight[b].answer)
        /\ inflight[a].issued < inflight[b].issued
        /\ inflight[a].completed > inflight[b].completed
        /\ tokens.accessToken = inflight[a].answer.access_token
        /\ tokens.accessToken # inflight[b].answer.access_token

\* C30: the tokens held are always exactly what one setTokens call or one
\* token response assigned, every field of it, and the access token the
\* hook reads is the access token of such a set.
C30_SingleSource ==
    /\ inflight # <<>> => \E k \in Writers : tokens = Written(k)
    /\ \A h \in DOMAIN inflight :
           inflight[h].bearer # Undef =>
               \E k \in Writers : inflight[h].bearer = Written(k).accessToken

\* tokens restored with a refresh token, then a response without one stored
\* over them: the refresh token is gone with the rest of the old set
C30_Witness ==
    \E a, b \in DOMAIN inflight :
        /\ inflight[a].op = "setTokens"
        /\ inflight[a].set.refreshToken = "rt0"
        /\ inflight[b].op \in {"refresh", "exchange", "clientCredentials"}
        /\ inflight[b].pc = "returned"
        /\ inflight[b].answer.refresh_token = Undef
        /\ inflight[b].completed = Completed(inflight)
        /\ tokens.accessToken = inflight[b].answer.access_token
        /\ tokens.refreshToken = Undef

(***************************************************************************)
(* Properties of the operations that grant no tokens                        *)
(***************************************************************************)
\* the operations that assign this.tokens
TokenWriters == {"exchange", "refresh", "clientCredentials", "setTokens"}

\* C31: a step of revokeToken, introspectToken, getUserInfo or an identity
\* operation, returned or thrown, leaves the tokens held as they were, so
\* that isTokenExpired and getAccessToken answer as before; and a step that
\* changes the tokens held is a step of exchangeCodeForToken,
\* refreshAccessToken, getClientCredentialsToken or setTokens.
C31_OnlyGrantsWriteTokens ==
    [][/\ (oauthCall' # oauthCall /\ oauthCall'.op \notin TokenWriters \cup {"isTokenExpired"}) =>
              /\ tokens' = tokens
              /\ getAccessToken(tokens') = getAccessToken(tokens)
              /\ isTokenExpired(tokens', now') = isTokenExpired(tokens, now)
       /\ tokens' # tokens => oauthCall'.op \in TokenWriters]_vars

\* the held access token was revoked, the revocation succeeded, and the
\* token is still held
C31_Witness ==
    /\ oauthCall.op = "revoke"
    /\ oauthCall.outcome = "returned"
    /\ tokens.held
    /\ oauthCall.arg = tokens.accessToken
    /\ tokens.refreshToken = "rt1"

(***************************************************************************)
(* Properties of the auth hook within a call                                *)
(***************************************************************************)
\* C32: on every attempt, when an access token is held once the hook has
\* run, what the transport was given carries that token as its bearer
\* token; when none is held, nothing reaches the transport and the attempt
\* fails with 'No access token available. Please authenticate first.'
C32_BearerOrNotSent ==
    [][ attempts' = attempts + 1 =>
           IF TruthyStr(tokens'.accessToken)
           THEN /\ lastResp'.kind # "noauth"
                /\ lastBearer' = tokens'.accessToken
           ELSE /\ lastResp'.kind = "noauth"
                /\ lastBearer' = Undef
                /\ lastError'.message =
                       "No access token available. Please authenticate first." ]_vars

\* a call made with no tokens held: nothing was sent, the call has thrown
C32_Witness ==
    /\ ~tokens.held
    /\ attempts > 0
    /\ lastResp.kind = "noauth"
    /\ lastBearer = Undef
    /\ pc = "thrown"
    /\ result.error.message = "No access token available. Please authenticate first."

(***************************************************************************)
(* Properties of concurrent deliveries                                      *)
(***************************************************************************)
\* the registrations a dispatch of `event` has to call, in order
ExpectedFor(event) ==
    (IF eventHandler.catchAll # Undef
     THEN <<[type |-> "*", fn |-> eventHandler.catchAll]>> ELSE <<>>)
    \o (IF event.event_type \in RegisteredTypes
        THEN eventHandler.handlers[event.event_type] ELSE <<>>)

\* what parseWebhook does with what delivery d was given
ParseOf(d) == parseWebhook(eventHandler.secret, deliveries[d].payload, deliveries[d].signature)

\* C33: in one handle call the handlers called exceed the promises settled
\* by at most one; while handle is pending exactly one handler is awaited;
\* and handle resolves only when every handler of the sequence was called
\* and has settled.
C33_OneHandlerAtATime ==
    \A d \in DOMAIN deliveries :
        LET running == Len(deliveries[d].calls) - Len(deliveries[d].outcomes) IN
        /\ running \in {0, 1}
        /\ deliveries[d].pc = "dispatching" => running = 1
        /\ deliveries[d].pc = "resolved" =>
               /\ running = 0
               /\ Len(deliveries[d].calls) = Len(ExpectedFor(deliveries[d].event))

\* the second handler awaited, the first settled, the third not yet called
C33_Witness ==
    \E d \in DOMAIN deliveries :
        /\ deliveries[d].pc = "dispatching"
        /\ Len(ExpectedFor(deliveries[d].event)) = 3
        /\ Len(deliveries[d].calls) = 2
        /\ deliveries[d].outcomes = <<"resolves">>

\* C34: a handle call given what parseWebhook throws on has rejected with
\* the error parseWebhook threw, and has called no handler, the catch-all
\* handler included.
C34_ParseFailureRejects ==
    \A d \in DOMAIN deliveries :
        ParseOf(d).outcome = "thrown" =>
            /\ deliveries[d].pc = "rejected"
            /\ deliveries[d].error = [source |-> "parseWebhook", message |-> ParseOf(d).message]
            /\ deliveries[d].calls = <<>>
            /\ deliveries[d].outcomes = <<>>

\* a delivery without a signature, with a catch-all handler registered
C34_Witness ==
    \E d \in DOMAIN deliveries :
        /\ deliveries[d].signature = <<>>
        /\ deliveries[d].pc = "rejected"
        /\ deliveries[d].error.message = <<"Webhook verification failed: ", "Missing signature">>
        /\ eventHandler.catchAll # Undef

\* C35: of two handle calls given the same signed payload, the later one
\* calls the handlers as the first did: its first handler at once, and when
\* it resolves it has called every handler of the sequence.
C35_NoDeduplication ==
    \A a, b \in DOMAIN deliveries :
        (/\ a < b
         /\ deliveries[a].payload = deliveries[b].payload
         /\ ParseOf(a).outcome = "returned"
         /\ ParseOf(b).outcome = "returned") =>
            /\ deliveries[b].event.event_id = deliveries[a].event.event_id
            /\ ExpectedFor(deliveries[b].event) # <<>> => deliveries[b].calls # <<>>
            /\ deliveries[b].pc = "resolved" =>
                   deliveries[b].calls = ExpectedFor(deliveries[b].event)

\* the same event delivered twice, both dispatched to both handlers
C35_Witness ==
    /\ Len(deliveries) = 2
    /\ deliveries[1].payload = deliveries[2].payload
    /\ deliveries[1].event.event_id = "evt_1"
    /\ deliveries[1].pc = "resolved" /\ deliveries[2].pc = "resolved"
    /\ Len(deliveries[1].calls) = 2
    /\ deliveries[2].calls = deliveries[1].calls

\* C36: whatever other handle calls are in progress, a handle call has
\* called the first handlers of its own sequence, in order, and it has
\* rejected exactly when parseWebhook threw or one of its own handlers
\* failed.
C36_DeliveriesIndependent ==
    \A d \in DOMAIN deliveries :
        /\ Len(deliveries[d].calls) <= Len(ExpectedFor(deliveries[d].event))
        /\ \A k \in 1..Len(deliveries[d].calls) :
               deliveries[d].calls[k] = ExpectedFor(deliveries[d].event)[k]
        /\ deliveries[d].pc = "rejected" <=>
               \/ ParseOf(d).outcome = "thrown"
               \/ \E k \in 1..Len(deliveries[d].outcomes) :
                      deliveries[d].outcomes[k] \in {"throws", "rejects"}

\* a second delivery began while the first was being dispatched, a handler
\* of the second failed, and the first went on to its next handler
C36_Witness ==
    /\ Len(deliveries) = 2
    /\ deliveries[1].pc = "dispatching"
    /\ deliveries[1].payload # deliveries[2].payload
    /\ deliveries[2].pc = "rejected"
    /\ deliveries[2].error.source = "handler"
    /\ deliveries[1].outcomes = <<"resolves">>
    /\ Len(deliveries[1].calls) = 2

\* C37: a retry runs the hook as the first attempt did.  When the held
\* token is expired at that moment, refreshAccessToken() is called again,
\* and when it returns the tokens held are the ones it returned, computed
\* at this attempt; when the held token is not expired no OAuth call is
\* made and the tokens stay.  Either way what is dispatched carries the
\* access token held after the hook.
C37_HookRunsOnEveryAttempt ==
    [][ (attempts' = attempts + 1 /\ attempts >= 1) =>
           /\ IF isTokenExpired(tokens, now)
              THEN /\ oauthCall'.op = "refresh"
                   /\ oauthCall'.outcome = "returned" =>
                          /\ tokens' = oauthIO'.returned
                          /\ tokens'.expiresAt # NoNum => tokens'.expiresAt > now
                   /\ oauthCall'.outcome = "thrown" => tokens' = tokens
              ELSE /\ tokens' = tokens
                   /\ oauthCall' = oauthCall
           /\ TruthyStr(tokens'.accessToken) =>
                  /\ lastBearer' = tokens'.accessToken
                  /\ lastResp'.kind # "noauth" ]_vars

\* the refresh of the first attempt failed and that attempt carried the old
\* token; the refresh of the second attempt, 10 ms later, returned, and the
\* second attempt carried the new token
C37_Witness ==
    /\ attempts = 2
    /\ now = FastRetryDelay
    /\ delays = <<FastRetryDelay>>
    /\ oauthCall.op = "refresh"
    /\ oauthCall.outcome = "returned"
    /\ tokens.accessToken = "at1"
    /\ tokens.expiresAt = FastRetryDelay + 1000
    /\ lastBearer = "at1"

\* C38: after a response with a status of 500 or more that carries a
\* Retry-After header, the delay before the next attempt is
\* baseDelayMs * 2^attempt, whatever the header says; and a delay that is
\* not baseDelayMs * 2^attempt follows a response with status 429 only.
C38_RetryAfterIgnoredOn5xx ==
    pc = "backoff" =>
        /\ (/\ lastResp.kind = "response"
            /\ lastResp.status >= 500
            /\ lastResp.retryAfter.kind # "absent") =>
               delays[Len(delays)] = RetryDelayOrDefault * Pow2(i)
        /\ delays[Len(delays)] # RetryDelayOrDefault * Pow2(i) =>
               (lastResp.kind = "response" /\ lastResp.status = 429)

\* a 500 with Retry-After: 2 followed by a delay of 10 ms
C38_Witness ==
    /\ pc = "backoff"
    /\ lastResp.kind = "response"
    /\ lastResp.status = 500
    /\ lastResp.retryAfter.kind = "seconds"
    /\ lastResp.retryAfter.n = 2
    /\ i = 0
    /\ delays = <<FastRetryDelay>>

(***************************************************************************)
(* Properties of the expiry of granted tokens                               *)
(***************************************************************************)
\* C39: a grant answered with expires_in = n >= 0 leaves tokens whose
\* expiresAt is the time of the grant plus n seconds, n = 0 included, and
\* tokens without expiresAt only when the response has no expires_in; and
\* tokens with an expiresAt are expired exactly from that time on.
C39_ExpiresAtFromExpiresIn ==
    [][ (/\ now' = now
         /\ oauthCall'.op \in {"exchange", "refresh"}
         /\ oauthCall'.outcome = "returned") =>
           /\ IF oauthIO'.answer.expires_in = NoNum
              THEN tokens'.expiresAt = NoNum
              ELSE /\ tokens'.expiresAt = now + oauthIO'.answer.expires_in * 1000
                   /\ \A t \in 0..MaxClock :
                          isTokenExpired(tokens', t) <=>
                              t >= now + oauthIO'.answer.expires_in * 1000 ]_vars

(***************************************************************************)
(* Properties of a constructed client                                       *)
(***************************************************************************)
\* C40: a constructed client has a timeout, a number of retries and a retry
\* delay, each the caller's value or, where the caller's options do not
\* have the property, the default: 30000 ms, 3, 1000 ms; also when it was
\* constructed through ContioPartnerSDK.
C40_DefaultsAfterConstruction ==
    sdk.pc = "constructed" =>
        /\ ~sdk.options.timeout.given => sdk.config.timeout = DefaultTimeout
        /\ ~sdk.options.retries.given => sdk.config.retries = DefaultRetries
        /\ ~sdk.options.retryDelay.given => sdk.config.retryDelay = DefaultRetryDelay

====
